---------------------------- MODULE Spec2Model ----------------------------
(***************************************************************************)
(* A model of the load-testing harness of bifrost-benchmarks               *)
(* (src/benchmark.go): provider registry and filter (main), the per        *)
(* provider run (runBenchmarks: memory sampler goroutine, attack loop,     *)
(* wall-clock context), the request targeter (createTargeter) and the      *)
(* results merger (saveResults).                                           *)
(*                                                                         *)
(* Strings that the code inspects character by character (provider names,  *)
(* the -provider flag, result keys) are sequences of one-character         *)
(* strings; every other string is a TLA+ string.                           *)
(***************************************************************************)
EXTENDS Integers, Sequences, FiniteSets, TLC

(***************************************************************************)
(* Bounds of the model.                                                    *)
(***************************************************************************)
\* requests issued over one whole run beyond the first of each attack
MaxExtraHits == 1
\* requests issued in the attack of one provider taken alone
MaxAttackHits == 3
\* memory samples appended over one whole run (all providers)
MaxSamples == 1
NumWorkers == 2
MaxCalls == 3
MaxClock == 1
\* results handed to saveResults taken alone
MaxResults == 2
\* attacks of one whole run whose wall-clock ceiling expires
MaxExpiries == 1
\* samples of the sequence handed to saveResults with one result
MaxSeqLen == 3
\* seconds of one attack that the timed attack loop follows, and the seconds
\* between two looks at the clock
MaxTime == 510
TimeStep == 30
\* concurrent requests to DebugHandler
NumRequests == 2

(***************************************************************************)
(* Strings and letter case (strings.ToLower, strings.EqualFold).           *)
(***************************************************************************)
UpperLetters ==
    <<"A","B","C","D","E","F","G","H","I","J","K","L","M",
      "N","O","P","Q","R","S","T","U","V","W","X","Y","Z">>

LowerLetters ==
    <<"a","b","c","d","e","f","g","h","i","j","k","l","m",
      "n","o","p","q","r","s","t","u","v","w","x","y","z">>

\* U+017F LATIN SMALL LETTER LONG S: not upper case, so ToLower keeps it, but
\* it is in the simple case-folding orbit of "s" and "S".
LongS == "U+017F"

\* unicode.ToLower on one rune
ToLowerRune(c) ==
    IF \E k \in DOMAIN UpperLetters : UpperLetters[k] = c
    THEN LowerLetters[CHOOSE k \in DOMAIN UpperLetters : UpperLetters[k] = c]
    ELSE c

\* strings.ToLower
ToLower(s) == [k \in DOMAIN s |-> ToLowerRune(s[k])]

\* the representative of a rune's simple case-folding orbit
FoldRune(c) == IF c = LongS THEN "s" ELSE ToLowerRune(c)

\* the mutant of EqualFold: a byte-wise comparison
EqualFold_exact(s, t) == s = t

\* strings.EqualFold: equal under Unicode simple case folding
EqualFold(s, t) ==
    /\ Len(s) = Len(t)
    /\ \A k \in DOMAIN s : FoldRune(s[k]) = FoldRune(t[k])

(***************************************************************************)
(* The provider registry (initializeProviders).                            *)
(***************************************************************************)
Bifrost  == <<"B","i","f","r","o","s","t">>
Litellm  == <<"L","i","t","e","l","l","m">>
Helicone == <<"H","e","l","i","c","o","n","e">>
Portkey  == <<"P","o","r","t","k","e","y">>

\* the payload template: the bytes json.Marshal writes for the map literal,
\* an object as the sequence of its members in sorted key order.  The
\* content string is a sequence of pieces, the two placeholders being pieces.
ContentTemplate ==
    <<"This is a benchmark request ", "#{request_index}", " at ",
      "#{timestamp}", ". How are you?">>

PayloadTemplate(model) ==
    << <<"messages", << << <<"content", ContentTemplate>>, <<"role", "user">> >> >> >>,
       <<"model", model>>,
       <<"provider", "openai">> >>

\* fmt.Sprintf(baseUrl, port, suffix)
EndpointOf(port, suffix) ==
    <<"http://localhost:", port, "/", suffix, "/chat/completions">>

\* os.Getenv: the value of the variable, "" when it is not set.  An
\* environment e says whether godotenv.Load could load the .env file and
\* holds the variables that are set.
Getenv(e, name) == IF name \in DOMAIN e.vars THEN e.vars[name] ELSE ""

MkProvider(name, portVar, e, model, suffix) ==
    [Name     |-> name,
     Endpoint |-> EndpointOf(Getenv(e, portVar), suffix),
     Port     |-> Getenv(e, portVar),
     Payload  |-> PayloadTemplate(model)]

\* the registry of src/benchmark.go, in its order
initializeProviders(e, model, suffix) ==
    << MkProvider(Bifrost,  "BIFROST_PORT",  e, model, suffix),
       MkProvider(Litellm,  "LITELLM_PORT",  e, model, suffix),
       MkProvider(Helicone, "HELICONE_PORT", e, model, suffix) >>

\* the payload template of the harness variant src/unnamed/part_001
VariantPayload ==
    << <<"messages", << << <<"content", ContentTemplate>>, <<"role", "user">> >> >> >>,
       <<"model", "gpt-4o-mini">> >>

\* the registry of the harness variant src/unnamed/part_001, in which
\* Portkey is registered
initializeProvidersVariant(e) ==
    << [MkProvider(Bifrost, "BIFROST_PORT", e, "gpt-4o-mini", "v1")
           EXCEPT !.Payload = VariantPayload],
       [MkProvider(Portkey, "PORTKEY_PORT", e, "gpt-4o-mini", "v1")
           EXCEPT !.Payload = VariantPayload] >>

\* the mutant of getProviderNames: the last provider is left out
getProviderNames_short(ps) == [k \in 1..(Len(ps) - 1) |-> ToLower(ps[k].Name)]

\* getProviderNames: the lower-cased name of every provider, in order
getProviderNames(ps) == [k \in DOMAIN ps |-> ToLower(ps[k].Name)]

(***************************************************************************)
(* Numbers.  A float64 the harness computes as a quotient is kept as the   *)
(* exact fraction <<numerator, denominator>> in lowest terms; 0/0 is NaN.  *)
(***************************************************************************)
RECURSIVE GCD(_, _)
GCD(a, b) == IF b = 0 THEN a ELSE GCD(b, a % b)

NaN == <<0, 0>>

Rat(n, d) == IF d = 0 THEN NaN ELSE <<n \div GCD(n, d), d \div GCD(n, d)>>

\* the mutant of Times100: the factor 100 is left out
Times100_once(x) == Rat(x[1], x[2])

\* 100.0 * x
Times100(x) == Rat(100 * x[1], x[2])

\* a Go map[string]int used as a histogram: m[k]++
Incr(m, k) ==
    IF k \in DOMAIN m THEN [m EXCEPT ![k] = @ + 1] ELSE m @@ (k :> 1)

RECURSIVE SumOver(_, _)
SumOver(m, keys) ==
    IF keys = {} THEN 0
    ELSE LET k == CHOOSE x \in keys : TRUE
         IN  m[k] + SumOver(m, keys \ {k})

\* the sum of all counts of a histogram
MapSum(m) == SumOver(m, DOMAIN m)

EmptyMap == [k \in {} |-> 0]

(***************************************************************************)
(* The attack engine (vegeta) as the harness uses it.                      *)
(***************************************************************************)
\* what one request can meet: no connection, or a response with a status
TransportFailure == "dial tcp: connection refused"
Statuses == {200, 201, 500}

\* the status line of a response (http.Response.Status)
StatusText(c) ==
    CASE c = 500 -> "500 Internal Server Error"
      [] c = 201 -> "201 Created"
      [] c = 200 -> "200 OK"
      [] OTHER   -> ToString(c)

\* the vegeta.Result of one hit: Code is 0 and Error the transport error when
\* no response came; a response outside 200..399 carries its status line as
\* Error.
ResultOfStatus(c) ==
    [Code |-> c, Error |-> IF c < 200 \/ c >= 400 THEN StatusText(c) ELSE ""]

Outcomes ==
    {[Code |-> 0, Error |-> TransportFailure]}
        \cup {ResultOfStatus(c) : c \in Statuses}

\* the zero vegeta.Metrics
ZeroMetrics ==
    [Requests |-> 0, success |-> 0, StatusCodes |-> EmptyMap,
     Success |-> <<0, 1>>, closed |-> FALSE]

\* the mutant of MetricsAdd: only status 200 counts as a success
MetricsAdd_only200(m, res) ==
    [m EXCEPT !.Requests = @ + 1,
              !.StatusCodes = Incr(@, ToString(res.Code)),
              !.success = IF res.Code = 200 THEN @ + 1 ELSE @]

\* vegeta.Metrics.Add: a response with status 200..399 is a success
MetricsAdd(m, res) ==
    [m EXCEPT !.Requests = @ + 1,
              !.StatusCodes = Incr(@, ToString(res.Code)),
              !.success = IF res.Code >= 200 /\ res.Code < 400 THEN @ + 1 ELSE @]

\* the mutant of MetricsClose: the share of the failures
MetricsClose_failures(m) ==
    [m EXCEPT !.Success = Rat(m.Requests - m.success, m.Requests), !.closed = TRUE]

\* vegeta.Metrics.Close: Success = success / Requests
MetricsClose(m) ==
    [m EXCEPT !.Success = Rat(m.success, m.Requests), !.closed = TRUE]

\* the timeout of context.WithTimeout in benchmark.go: 240 seconds
WallClockCeiling(d) == 240

\* the timeout of the variant: the duration and a buffer of 30 seconds
WallClockCeilingVariant(d) == d + 30

\* the mutant of TrackDropReason: the status is looked at before the error
TrackDropReason_statusFirst(d, res) ==
    IF res.Code # 200 THEN Incr(d, "HTTP " \o ToString(res.Code))
    ELSE IF res.Error # "" THEN Incr(d, res.Error)
    ELSE d

\* the mutant of TrackDropReason: an outcome with an error and a status other
\* than 200 is counted under both
TrackDropReason_both(d, res) ==
    LET d1 == IF res.Error # "" THEN Incr(d, res.Error) ELSE d
    IN  IF res.Code # 200 THEN Incr(d1, "HTTP " \o ToString(res.Code)) ELSE d1

\* the drop-reason bookkeeping of the attack loop for one outcome
TrackDropReason(d, res) ==
    IF res.Error # "" THEN Incr(d, res.Error)
    ELSE IF res.Code # 200 THEN Incr(d, "HTTP " \o ToString(res.Code))
    ELSE d

(***************************************************************************)
(* The results document (saveResults).  A JSON object is a function from   *)
(* its member names to values; a document maps keys (character sequences)  *)
(* to entries.  A float is a fraction, a map value is a record that says   *)
(* whether it is null.                                                     *)
(***************************************************************************)
NullMap == [null |-> TRUE, kv |-> EmptyMap]

JsonMap(m) == [null |-> FALSE, kv |-> m]

\* the json names of the fields of SerializableResult, src/benchmark.go
ResultFields ==
    {"requests", "rate", "success_rate", "mean_latency_ms", "p50_latency_ms",
     "p99_latency_ms", "max_latency_ms", "throughput_rps", "timestamp",
     "status_code_counts", "server_peak_memory_mb", "server_avg_memory_mb",
     "drop_reasons"}

\* the float64 fields among them
FloatFields ==
    ResultFields \ {"requests", "timestamp", "status_code_counts", "drop_reasons"}

\* the zero value of a field of SerializableResult
ZeroOf(f) ==
    CASE f = "requests" -> 0
      [] f = "timestamp" -> ""
      [] f \in {"status_code_counts", "drop_reasons"} -> NullMap
      [] OTHER -> <<0, 1>>

\* json.Unmarshal of one entry into a SerializableResult: a member the struct
\* has no field for is dropped, a field the entry lacks keeps its zero value
DecodeEntry(obj) ==
    [f \in ResultFields |-> IF f \in DOMAIN obj THEN obj[f] ELSE ZeroOf(f)]

\* json.Unmarshal of the file into map[string]SerializableResult
DecodeDocument(doc) == [k \in DOMAIN doc |-> DecodeEntry(doc[k])]

\* time.Time.Format(time.RFC3339)
FormatTime(t) == "T" \o ToString(t)

\* a ServerMemStat: the fields the harness fills that differ between samples
ServerMemStat(rss, percent) == [RSS |-> rss, MemPercent |-> percent]

\* the bytes of a megabyte: the divisor 1024 * 1024 of saveResults
BytesPerMB == 1024 * 1024

\* the mutant of PeakOf: the RSS of the last sample
PeakOf_last(stats) == IF stats = <<>> THEN 0 ELSE stats[Len(stats)].RSS

RECURSIVE PeakOf(_)
PeakOf(stats) ==
    IF stats = <<>> THEN 0
    ELSE LET rest == PeakOf(Tail(stats))
         IN  IF Head(stats).RSS > rest THEN Head(stats).RSS ELSE rest

RECURSIVE TotalOf(_)
TotalOf(stats) ==
    IF stats = <<>> THEN 0 ELSE Head(stats).RSS + TotalOf(Tail(stats))

\* float64(totalMem) / float64(len) / (1024 * 1024); var avgMem float64 stays
\* 0 unless a sample was taken.
AvgMem(stats) ==
    IF Len(stats) > 0 THEN Rat(TotalOf(stats), Len(stats) * BytesPerMB) ELSE <<0, 1>>

\* the SerializableResult of one BenchmarkResult, as json.MarshalIndent
\* writes it (every field, DropReasons never set: null)
Projection(res, now) ==
    [f \in ResultFields |->
        CASE f = "requests"              -> res.Metrics.Requests
          [] f = "success_rate"          -> Times100(res.Metrics.Success)
          [] f = "timestamp"             -> FormatTime(now)
          [] f = "status_code_counts"    -> JsonMap(res.Metrics.StatusCodes)
          [] f = "server_peak_memory_mb" -> Rat(PeakOf(res.ServerMemoryStats), BytesPerMB)
          [] f = "server_avg_memory_mb"  -> AvgMem(res.ServerMemoryStats)
          [] f = "drop_reasons"          -> NullMap
          [] OTHER                       -> <<0, 1>>]

\* the ErrorRate member the variant of saveResults stores:
\* 100.0 * float64(uint64(len(StatusCodes) - 1)) / float64(Requests), and 0.0
\* without requests.  Metrics with a request have a status code, so the
\* conversion to uint64 is applied to a number that is not negative.
ErrorRate(m) ==
    IF m.Requests > 0
    THEN Rat(100 * (Cardinality(DOMAIN m.StatusCodes) - 1), m.Requests)
    ELSE <<0, 1>>

\* m[k] = v on a Go map
Put(m, k, v) == [x \in DOMAIN m \cup {k} |-> IF x = k THEN v ELSE m[x]]

\* the mutant of Overlay: the key is the provider name as given
RECURSIVE Overlay_rawkey(_, _, _)
Overlay_rawkey(m, rs, now) ==
    IF rs = <<>> THEN m
    ELSE Overlay_rawkey(Put(m, Head(rs).ProviderName, Projection(Head(rs), now)),
                        Tail(rs), now)

\* the loop "for _, res := range results" of saveResults
RECURSIVE Overlay(_, _, _)
Overlay(m, rs, now) ==
    IF rs = <<>> THEN m
    ELSE Overlay(Put(m, ToLower(Head(rs).ProviderName), Projection(Head(rs), now)),
                 Tail(rs), now)

\* the file at the output path: absent, unreadable, not parseable as a
\* mapping, the JSON text null, or a document.  data is what json.Unmarshal
\* decodes of it (for an unparseable file: the entries decoded before the
\* error).
NoFile == [kind |-> "absent", data |-> <<>>]

\* resultsMap after "Try to read existing results file"
LoadPrior(f) == IF f.kind = "ok" THEN DecodeDocument(f.data) ELSE <<>>

\* the document saveResults writes
MergedDocument(f, rs, now) == Overlay(LoadPrior(f), rs, now)

(***************************************************************************)
(* The targeter.  A JSON text is the sequence of its members in the order  *)
(* json.Marshal writes them, the sorted order of the keys; the decoded     *)
(* value is the map from key to value.  A string with placeholders is the  *)
(* sequence of its pieces, each placeholder one piece.                     *)
(***************************************************************************)
\* the workers of the attacker, which call the targeter concurrently
Workers == 1..NumWorkers

\* the keys of the payload in the order json.Marshal writes them
JsonKeys == <<"content", "messages", "model", "provider", "role">>

\* json.Unmarshal of one object into a map: the last member of a key wins
UnmarshalObject(bytes) ==
    [k \in {bytes[p][1] : p \in DOMAIN bytes} |->
        LET last == CHOOSE p \in DOMAIN bytes :
                       /\ bytes[p][1] = k
                       /\ \A q \in DOMAIN bytes : bytes[q][1] = k => q <= p
        IN  bytes[last][2]]

\* json.Unmarshal(provider.Payload, &payload): the object and, in it, the
\* objects of the messages array
Unmarshal(bytes) ==
    LET top == UnmarshalObject(bytes)
    IN  [top EXCEPT !["messages"] = [m \in DOMAIN @ |-> UnmarshalObject(@[m])]]

\* json.Marshal of one map: its members, the keys sorted
MarshalObject(obj) ==
    LET Has(k) == k \in DOMAIN obj
        ks     == SelectSeq(JsonKeys, Has)
    IN  [p \in DOMAIN ks |-> <<ks[p], obj[ks[p]]>>]

\* json.Marshal(payload)
Marshal(payload) ==
    MarshalObject([payload EXCEPT !["messages"] =
                      [m \in DOMAIN @ |-> MarshalObject(@[m])]])

\* the mutant of strings.ReplaceAll: every piece is replaced
ReplaceAll_everywhere(text, old, new) == [p \in DOMAIN text |-> new]

\* strings.ReplaceAll on a string of pieces
ReplaceAll(text, old, new) ==
    [p \in DOMAIN text |-> IF text[p] = old THEN new ELSE text[p]]

\* the closure createTargeter returns, from the read of requestCounter on:
\* the target it fills in and the error it returns ("" for nil)
createTargeter(provider, counter, now, e) ==
    LET payload     == Unmarshal(provider.Payload)
        text        == payload["messages"][1]["content"]
        withIndex   == ReplaceAll(text, "#{request_index}", ToString(counter))
        updatedText == ReplaceAll(withIndex, "#{timestamp}", FormatTime(now))
        updated     == [payload EXCEPT !["messages"][1]["content"] = updatedText]
        tgt         == [Method |-> "POST",
                        URL    |-> provider.Endpoint,
                        Body   |-> Marshal(updated),
                        Header |-> ("Content-Type" :> <<"application/json">>)]
        openaiApiKey == Getenv(e, "OPENAI_API_KEY")
    IN  IF provider.Name = Portkey
        THEN IF openaiApiKey = ""
             THEN [tgt |-> tgt, err |-> "OPENAI_API_KEY is not set"]
             ELSE [tgt |-> [tgt EXCEPT !.Header = @ @@
                              ("X-Portkey-Config" :>
                                 << <<"{\"provider\":\"openai\",\"api_key\":\"",
                                      openaiApiKey, "\"}">> >>)],
                   err |-> ""]
        ELSE [tgt |-> tgt, err |-> ""]

(***************************************************************************)
(* The state of one run of the harness.                                    *)
(***************************************************************************)
VARIABLES
    requested,       \* the -provider flag
    cooldown,        \* the -cooldown flag
    env,             \* the environment after godotenv.Load
    listening,       \* the ports on which a process is in LISTEN state
    providers,       \* main's providers: the registry, then the run list
    pc,              \* where main / runBenchmarks / saveResults stands
    fatalMsg,        \* what log.Fatalf printed, <<>> before
    i,               \* runBenchmarks: the 1-based index of the provider
    results,         \* runBenchmarks: the result list
    metrics,         \* the vegeta.Metrics of the provider being run
    dropReasons,     \* the dropReasons map of the provider being run
    consumed,        \* the outcomes the attack loop has consumed (history)
    forced,          \* whether the attack loop left by "goto EndAttack"
    attack,          \* per provider: the state of its attacker
    resultsCh,       \* per provider: the outcome a worker is sending
    requestCounter,  \* per provider: the counter of its targeter
    hits,            \* requests issued so far in the run
    fates,           \* the outcomes the targets of this run can produce
    maxHits,         \* how many requests this run issues beyond the first
                     \* of each attack
    ctxDone,         \* whether ctx of the provider being run is done
    expiredInLoop,   \* history: ctx became done while the loop was waiting
                     \* for an outcome that the running attack had not yet
                     \* delivered
    samplerPc,       \* where the monitoring goroutine stands
    pendingStat,     \* memInfo.RSS, memPercent and err of the tick being handled
    serverMemStats,  \* the shared sample buffer
    memMutex,        \* who holds memMutex
    stopMonitoring,  \* whether the stop channel is closed
    wg,              \* the WaitGroup counter
    samplesTaken,    \* samples appended so far in the run
    expiries,        \* ceilings expired so far in the run
    deadline,        \* the deadline of ctx, on the clock
    file,            \* the file at the output path
    priorFile,       \* history: the file at the output path when main began
    percentReads,    \* what a p.MemoryPercent() call can return in this run
    duration,        \* the -duration flag, in seconds
    counterMutex,    \* the worker that holds counterMutex of the targeter, 0
                     \* when it is free
    callPc,          \* per worker: where its call of the targeter stands
    targets,         \* the targets the finished calls filled in, with the
                     \* error each call returned (history)
    clock,           \* time.Now
    handler,         \* per request of the debug server: where DebugHandler
                     \* stands, with its locals and what it has counted
    serverMetrics,   \* the serverMetrics global of the debug server
    timingStats,     \* the stats global of the debug server
    opPc             \* where GetMetricsHandler, PrintServerMetrics and
                     \* PrintStats stand

mainVars    == <<requested, cooldown, env, listening, providers, fatalMsg>>
loopVars    == <<i, results, metrics, dropReasons, consumed, forced>>
engineVars  == <<attack, resultsCh, requestCounter, hits, fates, maxHits>>
ctxVars     == <<ctxDone, expiredInLoop, expiries, deadline>>
samplerVars == <<samplerPc, pendingStat, serverMemStats, memMutex, samplesTaken>>
syncVars    == <<stopMonitoring, wg>>

histVars    == <<priorFile, percentReads, duration>>
dbgVars     == <<handler, serverMetrics, timingStats, opPc>>
tgtVars     == <<counterMutex, callPc, targets, clock, dbgVars>>

vars == <<mainVars, pc, loopVars, engineVars, ctxVars, samplerVars, syncVars, file,
          histVars, tgtVars>>

(***************************************************************************)
(* The debug server of the gateway (src/bifrost/lib/debug.go): DebugHandler *)
(* serves concurrent requests, each one counted in serverMetrics under     *)
(* serverMetrics.mu and, when it succeeded, in stats under stats.mu;       *)
(* GetMetricsHandler, PrintServerMetrics and PrintStats read the counters. *)
(* A mutex holds the name of its holder, "free" when nobody holds it.      *)
(***************************************************************************)
\* the requests to DebugHandler
Requests == {<<"req1", "req2", "req3", "req4">>[k] : k \in 1..NumRequests}

\* the operations that read the counters
Operations == {"GetMetricsHandler", "PrintServerMetrics", "PrintStats"}

\* time.After(30 * time.Second), in seconds
RequestTimeout == 30

\* what json.Unmarshal and len(chatReq.Messages) make of a request body
Bodies == {"invalid", "empty", "valid"}

\* a response of the backend: whether its RawResponse is a map that holds
\* "bifrost_timings" and "timings", each a map
BifrostResponse(bt, t) == [bifrost_timings |-> bt, timings |-> t]

NoResponse == BifrostResponse(FALSE, FALSE)

\* what client.ChatCompletionRequest returns: an error, or a response (the
\* client returns one or the other, never neither)
BackendResults ==
    {[bifrostErr |-> TRUE, bifrostResp |-> NoResponse],
     [bifrostErr |-> FALSE, bifrostResp |-> BifrostResponse(TRUE, TRUE)],
     [bifrostErr |-> FALSE, bifrostResp |-> NoResponse]}

\* what one request has added to the counters of serverMetrics (history)
ZeroCounted ==
    [TotalRequests |-> 0, SuccessfulRequests |-> 0, ErrorCount |-> 0,
     DroppedRequests |-> 0]

\* a request that has not arrived: the locals of DebugHandler, the state of
\* the goroutine that calls the backend (spawned, done), the seconds the
\* select has waited (0 outside the select), whether the select took the
\* time.After case, and the status code of the answer (0 before the handler
\* returns)
NewRequest ==
    [pc |-> "idle", body |-> "none", spawned |-> FALSE, done |-> FALSE,
     bifrostErr |-> FALSE, bifrostResp |-> NoResponse, waited |-> 0,
     timedOut |-> FALSE, status |-> 0, counted |-> ZeroCounted]

\* serverMetrics = &ServerMetrics{}
ZeroServerMetrics ==
    [mu |-> "free", TotalRequests |-> 0, SuccessfulRequests |-> 0,
     DroppedRequests |-> 0, ErrorCount |-> 0, LastError |-> ""]

\* stats = &TimingStats{}; metrics and providerTimings hold, for each entry,
\* the request whose response it was extracted from
ZeroTimingStats ==
    [mu |-> "free", totalRequests |-> 0, metrics |-> <<>>, providerTimings |-> <<>>]

benchVars == <<mainVars, pc, loopVars, engineVars, ctxVars, samplerVars, syncVars,
               file, histVars, counterMutex, callPc, targets, clock>>

\* a request reaches DebugHandler
DhArrive(r) ==
    /\ handler[r].pc = "idle"
    /\ handler' = [handler EXCEPT ![r].pc = "lockTotal"]
    /\ UNCHANGED <<benchVars, serverMetrics, timingStats, opPc>>

\* the statement after serverMetrics.mu.Lock() at each place DebugHandler
\* takes the mutex
AfterLock ==
    [lockTotal |-> "countTotal", lockBadRequest |-> "countBadRequest",
     lockDropped |-> "countDropped", lockError |-> "countError",
     lockSuccess |-> "countSuccess"]

\* serverMetrics.mu.Lock() in DebugHandler
DhLock(r) ==
    /\ handler[r].pc \in DOMAIN AfterLock
    /\ serverMetrics.mu = "free"
    /\ serverMetrics' = [serverMetrics EXCEPT !.mu = r]
    /\ handler' = [handler EXCEPT ![r].pc = AfterLock[handler[r].pc]]
    /\ UNCHANGED <<benchVars, timingStats, opPc>>

\* serverMetrics.TotalRequests++ ; serverMetrics.mu.Unlock()
DhCountTotal(r) ==
    /\ handler[r].pc = "countTotal"
    /\ serverMetrics.mu = r
    /\ serverMetrics' = [serverMetrics EXCEPT !.TotalRequests = @ + 1, !.mu = "free"]
    /\ handler' = [handler EXCEPT ![r].pc = "parse", ![r].counted.TotalRequests = @ + 1]
    /\ UNCHANGED <<benchVars, timingStats, opPc>>

\* json.Unmarshal of the body and the check of len(chatReq.Messages); a
\* valid request starts the goroutine that calls the backend and reaches
\* the select with a fresh timer
DhParse(r) ==
    /\ handler[r].pc = "parse"
    /\ \E b \in Bodies :
          handler' = [handler EXCEPT
                         ![r].body = b,
                         ![r].spawned = (b = "valid"),
                         ![r].pc = IF b = "valid" THEN "select" ELSE "lockBadRequest"]
    /\ UNCHANGED <<benchVars, serverMetrics, timingStats, opPc>>

\* a bad request answered without being counted
DhCountBadRequest_noCount(r) ==
    /\ handler[r].pc = "countBadRequest"
    /\ serverMetrics.mu = r
    /\ serverMetrics' = [serverMetrics EXCEPT !.mu = "free"]
    /\ handler' = [handler EXCEPT ![r].pc = "returned", ![r].status = 400]
    /\ UNCHANGED <<benchVars, timingStats, opPc>>

\* the two early returns: ErrorCount++, LastError, Unlock, status 400
DhCountBadRequest(r) ==
    /\ handler[r].pc = "countBadRequest"
    /\ serverMetrics.mu = r
    /\ serverMetrics' = [serverMetrics EXCEPT
                            !.ErrorCount = @ + 1,
                            !.LastError = IF handler[r].body = "invalid"
                                          THEN "invalid request format"
                                          ELSE "messages array is required",
                            !.mu = "free"]
    /\ handler' = [handler EXCEPT ![r].pc = "returned", ![r].status = 400,
                                  ![r].counted.ErrorCount = @ + 1]
    /\ UNCHANGED <<benchVars, timingStats, opPc>>

\* the goroutine: client.ChatCompletionRequest returns, its result is stored
\* in bifrostResp and bifrostErr, close(done); the handler may have returned
BackendComplete(r) ==
    /\ handler[r].spawned
    /\ ~handler[r].done
    /\ \E res \in BackendResults :
          handler' = [handler EXCEPT ![r].done = TRUE,
                                     ![r].bifrostErr = res.bifrostErr,
                                     ![r].bifrostResp = res.bifrostResp]
    /\ UNCHANGED <<benchVars, serverMetrics, timingStats, opPc>>

\* the select waits: the 30 seconds of its timer pass with done still open
DhWait(r) ==
    /\ handler[r].pc = "select"
    /\ ~handler[r].done
    /\ handler[r].waited < RequestTimeout
    /\ handler' = [handler EXCEPT ![r].waited = RequestTimeout]
    /\ UNCHANGED <<benchVars, serverMetrics, timingStats, opPc>>

\* case <-done, then the check of bifrostErr
DhSelectDone(r) ==
    /\ handler[r].pc = "select"
    /\ handler[r].done
    /\ handler' = [handler EXCEPT
                      ![r].waited = 0,
                      ![r].pc = IF handler[r].bifrostErr THEN "lockError"
                                                          ELSE "lockSuccess"]
    /\ UNCHANGED <<benchVars, serverMetrics, timingStats, opPc>>

\* case <-time.After(30 * time.Second): the timer fires while the handler
\* is blocked in the select with done still open
DhSelectTimeout(r) ==
    /\ handler[r].pc = "select"
    /\ ~handler[r].done
    /\ handler[r].waited >= RequestTimeout
    /\ handler' = [handler EXCEPT ![r].pc = "lockDropped", ![r].timedOut = TRUE,
                                  ![r].waited = 0]
    /\ UNCHANGED <<benchVars, serverMetrics, timingStats, opPc>>

\* the time.After case without its return: the handler goes on to wait for
\* the backend
DhCountDropped_noReturn(r) ==
    /\ handler[r].pc = "countDropped"
    /\ serverMetrics.mu = r
    /\ serverMetrics' = [serverMetrics EXCEPT
                            !.DroppedRequests = @ + 1,
                            !.LastError = "request timed out after 30 seconds",
                            !.mu = "free"]
    /\ handler' = [handler EXCEPT ![r].pc = "select", ![r].status = 504,
                                  ![r].counted.DroppedRequests = @ + 1]
    /\ UNCHANGED <<benchVars, timingStats, opPc>>

\* DroppedRequests++, LastError, Unlock, status 504, return
DhCountDropped(r) ==
    /\ handler[r].pc = "countDropped"
    /\ serverMetrics.mu = r
    /\ serverMetrics' = [serverMetrics EXCEPT
                            !.DroppedRequests = @ + 1,
                            !.LastError = "request timed out after 30 seconds",
                            !.mu = "free"]
    /\ handler' = [handler EXCEPT ![r].pc = "returned", ![r].status = 504,
                                  ![r].counted.DroppedRequests = @ + 1]
    /\ UNCHANGED <<benchVars, timingStats, opPc>>

\* bifrostErr != nil: ErrorCount++, LastError, Unlock, status 500, return
DhCountError(r) ==
    /\ handler[r].pc = "countError"
    /\ serverMetrics.mu = r
    /\ serverMetrics' = [serverMetrics EXCEPT
                            !.ErrorCount = @ + 1,
                            !.LastError = "bifrostErr",
                            !.mu = "free"]
    /\ handler' = [handler EXCEPT ![r].pc = "returned", ![r].status = 500,
                                  ![r].counted.ErrorCount = @ + 1]
    /\ UNCHANGED <<benchVars, timingStats, opPc>>

\* SuccessfulRequests++ with serverMetrics.mu kept
DhCountSuccess_keepLock(r) ==
    /\ handler[r].pc = "countSuccess"
    /\ serverMetrics.mu = r
    /\ serverMetrics' = [serverMetrics EXCEPT !.SuccessfulRequests = @ + 1]
    /\ handler' = [handler EXCEPT ![r].pc = "lockStats",
                                  ![r].counted.SuccessfulRequests = @ + 1]
    /\ UNCHANGED <<benchVars, timingStats, opPc>>

\* SuccessfulRequests++ ; serverMetrics.mu.Unlock()
DhCountSuccess(r) ==
    /\ handler[r].pc = "countSuccess"
    /\ serverMetrics.mu = r
    /\ serverMetrics' = [serverMetrics EXCEPT !.SuccessfulRequests = @ + 1,
                                              !.mu = "free"]
    /\ handler' = [handler EXCEPT ![r].pc = "lockStats",
                                  ![r].counted.SuccessfulRequests = @ + 1]
    /\ UNCHANGED <<benchVars, timingStats, opPc>>

\* stats.mu.Lock() in DebugHandler
DhLockStats(r) ==
    /\ handler[r].pc = "lockStats"
    /\ timingStats.mu = "free"
    /\ timingStats' = [timingStats EXCEPT !.mu = r]
    /\ handler' = [handler EXCEPT ![r].pc = "extract"]
    /\ UNCHANGED <<benchVars, serverMetrics, opPc>>

\* stats.totalRequests++, the two appends the response allows, Unlock
DhExtract(r) ==
    /\ handler[r].pc = "extract"
    /\ timingStats.mu = r
    /\ timingStats' =
          [timingStats EXCEPT
              !.totalRequests = @ + 1,
              !.metrics = IF handler[r].bifrostResp.bifrost_timings
                          THEN Append(@, r) ELSE @,
              !.providerTimings = IF handler[r].bifrostResp.timings
                                  THEN Append(@, r) ELSE @,
              !.mu = "free"]
    /\ handler' = [handler EXCEPT ![r].pc = "encode"]
    /\ UNCHANGED <<benchVars, serverMetrics, opPc>>

\* json.NewEncoder(ctx).Encode(bifrostResp): the answer of a success is 200,
\* or 500 when the encoding fails
DhEncode(r) ==
    /\ handler[r].pc = "encode"
    /\ \E encoded \in BOOLEAN :
          handler' = [handler EXCEPT ![r].pc = "returned",
                                     ![r].status = IF encoded THEN 200 ELSE 500]
    /\ UNCHANGED <<benchVars, serverMetrics, timingStats, opPc>>

DebugHandler(r) ==
    \/ DhArrive(r)
    \/ DhLock(r)
    \/ DhCountTotal(r)
    \/ DhParse(r)
    \/ DhCountBadRequest(r)
    \/ DhWait(r)
    \/ DhSelectDone(r)
    \/ DhSelectTimeout(r)
    \/ DhCountDropped(r)
    \/ DhCountError(r)
    \/ DhCountSuccess(r)
    \/ DhLockStats(r)
    \/ DhExtract(r)
    \/ DhEncode(r)

\* serverMetrics.mu.Lock() of an operation that reads the counters
ReaderLock(o) ==
    /\ opPc[o] = "idle"
    /\ serverMetrics.mu = "free"
    /\ serverMetrics' = [serverMetrics EXCEPT !.mu = o]
    /\ opPc' = [opPc EXCEPT ![o] = "read"]
    /\ UNCHANGED <<benchVars, handler, timingStats>>

\* the counters are read and the deferred Unlock runs at the return
ReaderReturn(o) ==
    /\ opPc[o] = "read"
    /\ serverMetrics.mu = o
    /\ serverMetrics' = [serverMetrics EXCEPT !.mu = "free"]
    /\ opPc' = [opPc EXCEPT ![o] = "idle"]
    /\ UNCHANGED <<benchVars, handler, timingStats>>

GetMetricsHandler ==
    ReaderLock("GetMetricsHandler") \/ ReaderReturn("GetMetricsHandler")

PrintServerMetrics ==
    ReaderLock("PrintServerMetrics") \/ ReaderReturn("PrintServerMetrics")

\* stats.mu.Lock() ; defer stats.mu.Unlock()
PsLock ==
    /\ opPc["PrintStats"] = "idle"
    /\ timingStats.mu = "free"
    /\ timingStats' = [timingStats EXCEPT !.mu = "PrintStats"]
    /\ opPc' = [opPc EXCEPT !["PrintStats"] = "sum"]
    /\ UNCHANGED <<benchVars, handler, serverMetrics>>

\* "No requests processed" and the return, or the sums over stats
PsSum ==
    /\ opPc["PrintStats"] = "sum"
    /\ IF timingStats.totalRequests = 0
       THEN /\ timingStats' = [timingStats EXCEPT !.mu = "free"]
            /\ opPc' = [opPc EXCEPT !["PrintStats"] = "idle"]
       ELSE /\ opPc' = [opPc EXCEPT !["PrintStats"] = "lockServer"]
            /\ UNCHANGED timingStats
    /\ UNCHANGED <<benchVars, handler, serverMetrics>>

\* serverMetrics.mu.Lock() with stats.mu held
PsLockServer ==
    /\ opPc["PrintStats"] = "lockServer"
    /\ serverMetrics.mu = "free"
    /\ serverMetrics' = [serverMetrics EXCEPT !.mu = "PrintStats"]
    /\ opPc' = [opPc EXCEPT !["PrintStats"] = "print"]
    /\ UNCHANGED <<benchVars, handler, timingStats>>

\* the server metrics are printed ; serverMetrics.mu.Unlock()
PsUnlockServer ==
    /\ opPc["PrintStats"] = "print"
    /\ serverMetrics.mu = "PrintStats"
    /\ serverMetrics' = [serverMetrics EXCEPT !.mu = "free"]
    /\ opPc' = [opPc EXCEPT !["PrintStats"] = "averages"]
    /\ UNCHANGED <<benchVars, handler, timingStats>>

\* the averages are printed and the deferred stats.mu.Unlock() runs
PsReturn ==
    /\ opPc["PrintStats"] = "averages"
    /\ timingStats.mu = "PrintStats"
    /\ timingStats' = [timingStats EXCEPT !.mu = "free"]
    /\ opPc' = [opPc EXCEPT !["PrintStats"] = "idle"]
    /\ UNCHANGED <<benchVars, handler, serverMetrics>>

PrintStats == PsLock \/ PsSum \/ PsLockServer \/ PsUnlockServer \/ PsReturn

(***************************************************************************)
(* Inputs.                                                                 *)
(***************************************************************************)
EnvFull ==
    [loaded |-> TRUE,
     vars   |-> [v \in {"BIFROST_PORT", "LITELLM_PORT", "HELICONE_PORT"} |->
                   CASE v = "BIFROST_PORT" -> "3001"
                     [] v = "LITELLM_PORT" -> "3002"
                     [] OTHER              -> "3003"]]

\* values of the -provider flag: none, names in several spellings, names
\* that are in no registry entry
RequestedChoices ==
    { <<>>,
      Bifrost,
      ToLower(Litellm),
      <<"H","E","L","I","C","O","N","E">>,
      <<"b","I","f","R","o",LongS,"t">>,
      Portkey,
      <<"B","i","f","r","o","s">> }

CooldownChoices == {0, 5}

\* the ports with a listening process: none, only Bifrost's, all
ListeningChoices == {{}, {"3001"}, {"3001", "3002", "3003"}}

\* an entry as this harness wrote it in an earlier run
OldEntry(n) ==
    [f \in ResultFields |->
        CASE f = "requests"           -> n
          [] f = "success_rate"       -> <<100, 1>>
          [] f = "timestamp"          -> FormatTime(0)
          [] f = "status_code_counts" -> JsonMap(ToString(200) :> n)
          [] f = "drop_reasons"       -> NullMap
          [] OTHER                    -> <<0, 1>>]

\* the same entry as the harness variant with error_rate wrote it
\* (src/unnamed/part_001: no drop_reasons member, an error_rate member)
OldEntryErrorRate(n) ==
    [f \in (ResultFields \ {"drop_reasons"}) \cup {"error_rate"} |->
        IF f = "error_rate" THEN <<0, 1>> ELSE OldEntry(n)[f]]

\* the same entry with exactly the members of the documented file format
OldEntryDocumented(n) == [f \in ResultFields \ {"drop_reasons"} |-> OldEntry(n)[f]]

PriorFile == [kind |-> "ok", data |-> (ToLower(Litellm) :> OldEntry(7))]

FileChoices == {PriorFile}

(***************************************************************************)
(* main: the registry, the -provider filter.                               *)
(***************************************************************************)
\* the filter loop of main: the first provider whose name matches, alone
RECURSIVE FilterProviders(_, _)
FilterProviders(ps, name) ==
    IF ps = <<>> THEN <<>>
    ELSE IF EqualFold(Head(ps).Name, name) THEN <<Head(ps)>>
    ELSE FilterProviders(Tail(ps), name)

ProviderIndices == 1..3

\* the targets of a whole run: every request is answered with 200, or no
\* request finds a listener
FateChoices == {{ResultOfStatus(200)}, {[Code |-> 0, Error |-> TransportFailure]}}

\* resident-set sizes a memory read returns, in bytes
RSSValues == {2 * BytesPerMB}

\* what p.MemoryPercent() returns: the share and no error, or an error
PercentOK == [value |-> 5, err |-> ""]
PercentFailed == [value |-> 0, err |-> "process does not exist"]

\* memInfo.RSS, memPercent and the err of the tick's last read when the
\* goroutine is not between a tick and its append
NoTick == [RSS |-> 0, MemPercent |-> 0, err |-> ""]

\* the -model and -suffix flags at their defaults
Registry == initializeProviders(EnvFull, "gpt-4o-mini", "v1")

InitCommon ==
    /\ fatalMsg = <<>>
    /\ metrics = ZeroMetrics
    /\ dropReasons = EmptyMap
    /\ consumed = <<>>
    /\ forced = FALSE
    /\ resultsCh = [k \in ProviderIndices |-> <<>>]
    /\ requestCounter = [k \in ProviderIndices |-> 0]
    /\ counterMutex = 0
    /\ callPc = [c \in Workers |-> "idle"]
    /\ targets = <<>>
    /\ clock = 0
    /\ hits = 0
    /\ ctxDone = FALSE
    /\ expiredInLoop = FALSE
    /\ expiries = 0
    /\ pendingStat = NoTick
    /\ serverMemStats = <<>>
    /\ memMutex = "free"
    /\ stopMonitoring = FALSE
    /\ samplesTaken = 0
    /\ handler = [r \in Requests |-> NewRequest]
    /\ serverMetrics = ZeroServerMetrics
    /\ timingStats = ZeroTimingStats
    /\ opPc = [o \in Operations |-> "idle"]

\* the state when main has parsed its flags and built the registry
Init ==
    /\ InitCommon
    /\ env = EnvFull
    /\ i = 1
    /\ requested \in RequestedChoices
    /\ cooldown \in CooldownChoices
    /\ listening \in ListeningChoices
    /\ file \in FileChoices
    /\ priorFile = file
    /\ duration = 10
    /\ deadline = 0
    /\ percentReads = {PercentOK}
    /\ fates \in FateChoices
    /\ maxHits = MaxExtraHits
    /\ providers = Registry
    /\ attack = [k \in ProviderIndices |-> "idle"]
    /\ samplerPc = "idle"
    /\ wg = 0
    /\ results = <<>>
    /\ pc = "main"

\* main, from the filter to the call of runBenchmarks
Main ==
    /\ pc = "main"
    /\ IF requested # <<>> /\ Len(FilterProviders(providers, requested)) = 0
       THEN /\ pc' = "fatal"
            /\ fatalMsg' = [provider  |-> requested,
                            available |-> getProviderNames(providers)]
            /\ UNCHANGED providers
       ELSE /\ pc' = "loop"
            /\ providers' = IF requested # <<>>
                            THEN FilterProviders(providers, requested)
                            ELSE providers
            /\ UNCHANGED fatalMsg
    /\ UNCHANGED <<requested, cooldown, env, listening, loopVars, engineVars,
                   ctxVars, samplerVars, syncVars, file, histVars, tgtVars>>

(***************************************************************************)
(* runBenchmarks: the orchestrator.                                        *)
(***************************************************************************)
\* the mutant of StartMonitoring: one drop-reason histogram serves every
\* provider
StartMonitoring_sharedDrops ==
    /\ pc = "loop"
    /\ i <= Len(providers)
    /\ pc' = "ctx"
    /\ requestCounter' = [requestCounter EXCEPT ![i] = 0]
    /\ serverMemStats' = <<>>
    /\ memMutex' = "free"
    /\ stopMonitoring' = FALSE
    /\ wg' = 1
    /\ samplerPc' = "spawned"
    /\ pendingStat' = NoTick
    /\ UNCHANGED <<mainVars, i, results, metrics, dropReasons, consumed, forced,
                   attack, resultsCh, hits, fates, maxHits, ctxVars,
                   samplesTaken, file, histVars, tgtVars>>

\* the mutant of StartMonitoring: the go statement is left out
StartMonitoring_noSpawn ==
    /\ pc = "loop"
    /\ i <= Len(providers)
    /\ pc' = "ctx"
    /\ requestCounter' = [requestCounter EXCEPT ![i] = 0]
    /\ serverMemStats' = <<>>
    /\ memMutex' = "free"
    /\ stopMonitoring' = FALSE
    /\ wg' = 1
    /\ dropReasons' = EmptyMap
    /\ pendingStat' = NoTick
    /\ UNCHANGED <<mainVars, i, results, metrics, consumed, forced, attack,
                   resultsCh, hits, fates, maxHits, ctxVars, samplerPc,
                   samplesTaken, file, histVars, tgtVars>>

\* the head of the loop body up to "go func()": the targeter, the attacker,
\* the fresh buffer, mutex, stop channel, WaitGroup and dropReasons, wg.Add(1)
\* and the start of the monitoring goroutine
StartMonitoring ==
    /\ pc = "loop"
    /\ i <= Len(providers)
    /\ pc' = "ctx"
    /\ requestCounter' = [requestCounter EXCEPT ![i] = 0]
    /\ serverMemStats' = <<>>
    /\ memMutex' = "free"
    /\ stopMonitoring' = FALSE
    /\ wg' = 1
    /\ dropReasons' = EmptyMap
    /\ samplerPc' = "spawned"
    /\ pendingStat' = NoTick
    /\ UNCHANGED <<mainVars, i, results, metrics, consumed, forced, attack,
                   resultsCh, hits, fates, maxHits, ctxVars, samplesTaken, file, histVars, tgtVars>>

\* the mutant of StartAttack: one context, made before the loop over the
\* providers, serves every attack
StartAttack_sharedCtx ==
    /\ pc = "ctx"
    /\ pc' = "attack"
    /\ expiredInLoop' = FALSE
    /\ UNCHANGED <<ctxDone, expiries, deadline>>
    /\ metrics' = ZeroMetrics
    /\ consumed' = <<>>
    /\ forced' = FALSE
    /\ attack' = [attack EXCEPT ![i] = "running"]
    /\ UNCHANGED <<mainVars, i, results, dropReasons, resultsCh, requestCounter,
                   hits, fates, maxHits, samplerVars, syncVars, file, histVars, tgtVars>>

\* context.WithTimeout, var metrics, and the call attacker.Attack
StartAttack ==
    /\ pc = "ctx"
    /\ pc' = "attack"
    /\ ctxDone' = FALSE
    /\ expiredInLoop' = FALSE
    /\ deadline' = clock + WallClockCeiling(duration)
    /\ UNCHANGED expiries
    /\ metrics' = ZeroMetrics
    /\ consumed' = <<>>
    /\ forced' = FALSE
    /\ attack' = [attack EXCEPT ![i] = "running"]
    /\ UNCHANGED <<mainVars, i, results, dropReasons, resultsCh, requestCounter,
                   hits, fates, maxHits, samplerVars, syncVars, file, histVars, tgtVars>>

\* a worker of attack k calls the targeter, meets its fate and offers the
\* outcome on the results channel.  When the targeter returns an error the
\* worker stops the attacker and the outcome carries the error.
Hit(k) ==
    /\ attack[k] = "running"
    /\ resultsCh[k] = <<>>
    /\ requestCounter[k] = 0 \/ hits < maxHits
    /\ LET call == createTargeter(providers[k], requestCounter[k] + 1, clock, env)
       IN  IF call.err # ""
           THEN /\ resultsCh' = [resultsCh EXCEPT
                                    ![k] = <<[Code |-> 0, Error |-> call.err]>>]
                /\ attack' = [attack EXCEPT ![k] = "stopped"]
           ELSE /\ \E res \in fates : resultsCh' = [resultsCh EXCEPT ![k] = <<res>>]
                /\ UNCHANGED attack
    /\ requestCounter' = [requestCounter EXCEPT ![k] = @ + 1]
    /\ hits' = IF requestCounter[k] = 0 THEN hits ELSE hits + 1
    /\ UNCHANGED <<mainVars, pc, loopVars, fates, maxHits, ctxVars,
                   samplerVars, syncVars, file, histVars, tgtVars>>

\* the attacker of attack k has issued its last request, or was stopped, and
\* every worker has delivered: close(results)
EngineFinish(k) ==
    /\ attack[k] \in {"running", "stopped"}
    /\ resultsCh[k] = <<>>
    /\ requestCounter[k] > 0
    /\ attack' = [attack EXCEPT ![k] = "closed"]
    /\ UNCHANGED <<mainVars, pc, loopVars, resultsCh, requestCounter, hits,
                   fates, maxHits, ctxVars, samplerVars, syncVars, file, histVars, tgtVars>>

\* the wall-clock ceiling of the provider being run expires
CtxExpire ==
    /\ pc = "attack"
    /\ ~ctxDone
    /\ expiries < MaxExpiries
    /\ ctxDone' = TRUE
    /\ expiredInLoop' = (attack[i] = "running" /\ resultsCh[i] = <<>>)
    /\ expiries' = expiries + 1
    /\ UNCHANGED deadline
    /\ UNCHANGED <<mainVars, pc, loopVars, engineVars, samplerVars, syncVars, file, histVars, tgtVars>>

\* the mutant of Consume: the ctx.Done branch counts the timeout and goes
\* on with the loop
Consume_noBreak ==
    /\ pc = "attack"
    /\ resultsCh[i] # <<>>
    /\ LET res == Head(resultsCh[i])
           d   == TrackDropReason(dropReasons, res)
       IN  /\ metrics' = MetricsAdd(metrics, res)
           /\ consumed' = Append(consumed, res)
           /\ IF ctxDone
              THEN /\ dropReasons' = Incr(d, "context_timeout")
                   /\ forced' = TRUE
                   /\ UNCHANGED pc
              ELSE /\ dropReasons' = d
                   /\ UNCHANGED <<forced, pc>>
    /\ resultsCh' = [resultsCh EXCEPT ![i] = <<>>]
    /\ UNCHANGED <<mainVars, i, results, attack, requestCounter, hits, fates,
                   maxHits, ctxVars, samplerVars, syncVars, file, histVars, tgtVars>>

\* the mutant of Consume: an outcome with an error ends the loop
Consume_stopOnError ==
    /\ pc = "attack"
    /\ resultsCh[i] # <<>>
    /\ LET res == Head(resultsCh[i])
           d   == TrackDropReason(dropReasons, res)
       IN  /\ metrics' = MetricsAdd(metrics, res)
           /\ consumed' = Append(consumed, res)
           /\ IF ctxDone
              THEN /\ dropReasons' = Incr(d, "context_timeout")
                   /\ forced' = TRUE
                   /\ pc' = "EndAttack"
              ELSE /\ dropReasons' = d
                   /\ UNCHANGED forced
                   /\ pc' = IF res.Error # "" THEN "EndAttack" ELSE pc
    /\ resultsCh' = [resultsCh EXCEPT ![i] = <<>>]
    /\ UNCHANGED <<mainVars, i, results, attack, requestCounter, hits, fates,
                   maxHits, ctxVars, samplerVars, syncVars, file, histVars, tgtVars>>

\* one pass of the body of "for res := range attacker.Attack(...)"
Consume ==
    /\ pc = "attack"
    /\ resultsCh[i] # <<>>
    /\ LET res == Head(resultsCh[i])
           d   == TrackDropReason(dropReasons, res)
       IN  /\ metrics' = MetricsAdd(metrics, res)
           /\ consumed' = Append(consumed, res)
           /\ IF ctxDone
              THEN /\ dropReasons' = Incr(d, "context_timeout")
                   /\ forced' = TRUE
                   /\ pc' = "EndAttack"
              ELSE /\ dropReasons' = d
                   /\ UNCHANGED <<forced, pc>>
    /\ resultsCh' = [resultsCh EXCEPT ![i] = <<>>]
    /\ UNCHANGED <<mainVars, i, results, attack, requestCounter, hits, fates,
                   maxHits, ctxVars, samplerVars, syncVars, file, histVars, tgtVars>>

\* the range loop finds the results channel closed
RangeClosed ==
    /\ pc = "attack"
    /\ attack[i] = "closed"
    /\ pc' = "EndAttack"
    /\ UNCHANGED <<mainVars, loopVars, engineVars, ctxVars, samplerVars,
                   syncVars, file, histVars, tgtVars>>

\* EndAttack: metrics.Close()
EndAttack ==
    /\ pc = "EndAttack"
    /\ metrics' = MetricsClose(metrics)
    /\ pc' = "stop"
    /\ UNCHANGED <<mainVars, i, results, dropReasons, consumed, forced,
                   engineVars, ctxVars, samplerVars, syncVars, file, histVars, tgtVars>>

\* the mutant of StopMonitoring: the stop signal is sent on leaving the
\* loop, before metrics.Close()
StopMonitoring_beforeClose ==
    /\ pc = "EndAttack"
    /\ stopMonitoring' = TRUE
    /\ pc' = "wait"
    /\ UNCHANGED <<mainVars, loopVars, engineVars, ctxVars, samplerVars, wg,
                   file, histVars, tgtVars>>

\* close(stopMonitoring)
StopMonitoring ==
    /\ pc = "stop"
    /\ stopMonitoring' = TRUE
    /\ pc' = "wait"
    /\ UNCHANGED <<mainVars, loopVars, engineVars, ctxVars, samplerVars, wg, file, histVars, tgtVars>>

\* the mutant of WaitSampler: the orchestrator goes on without the join
WaitSampler_noJoin ==
    /\ pc = "wait"
    /\ pc' = "lock"
    /\ UNCHANGED <<mainVars, loopVars, engineVars, ctxVars, samplerVars,
                   syncVars, file, histVars, tgtVars>>

\* wg.Wait() returns
WaitSampler ==
    /\ pc = "wait"
    /\ wg = 0
    /\ pc' = "lock"
    /\ UNCHANGED <<mainVars, loopVars, engineVars, ctxVars, samplerVars,
                   syncVars, file, histVars, tgtVars>>

\* memMutex.Lock() of the orchestrator
CopyLock ==
    /\ pc = "lock"
    /\ memMutex = "free"
    /\ memMutex' = "main"
    /\ pc' = "copy"
    /\ UNCHANGED <<mainVars, loopVars, engineVars, ctxVars, samplerPc,
                   pendingStat, serverMemStats, samplesTaken, syncVars, file, histVars, tgtVars>>

\* the mutant of BenchmarkResult: the result gets an empty sample sequence
BenchmarkResult_noStats(p, m, stats, d) ==
    [ProviderName |-> p.Name, Metrics |-> m, ServerMemoryStats |-> <<>>,
     DropReasons |-> d]

\* the BenchmarkResult of the provider being run
BenchmarkResult(p, m, stats, d) ==
    [ProviderName |-> p.Name, Metrics |-> m, ServerMemoryStats |-> stats,
     DropReasons |-> d]

\* the mutant of CopyStats: the pause does not depend on the provider being
\* the last one
CopyStats_pauseAfterLast ==
    /\ pc = "copy"
    /\ memMutex' = "free"
    /\ results' = Append(results,
                         BenchmarkResult(providers[i], metrics, serverMemStats,
                                         dropReasons))
    /\ IF cooldown > 0
       THEN pc' = "cooldown" /\ UNCHANGED i
       ELSE pc' = "loop" /\ i' = i + 1
    /\ UNCHANGED <<mainVars, metrics, dropReasons, consumed, forced, engineVars,
                   ctxVars, samplerPc, pendingStat, serverMemStats, samplesTaken,
                   syncVars, file, histVars, tgtVars>>

\* the copy, memMutex.Unlock(), the append to results, the summary, and the
\* test of the cooldown
CopyStats ==
    /\ pc = "copy"
    /\ memMutex' = "free"
    /\ results' = Append(results,
                         BenchmarkResult(providers[i], metrics, serverMemStats,
                                         dropReasons))
    /\ IF i < Len(providers) /\ cooldown > 0
       THEN pc' = "cooldown" /\ UNCHANGED i
       ELSE pc' = "loop" /\ i' = i + 1
    /\ UNCHANGED <<mainVars, metrics, dropReasons, consumed, forced, engineVars,
                   ctxVars, samplerPc, pendingStat, serverMemStats, samplesTaken,
                   syncVars, file, histVars, tgtVars>>

\* time.Sleep(cooldown) returns
Cooldown ==
    /\ pc = "cooldown"
    /\ pc' = "loop"
    /\ i' = i + 1
    /\ UNCHANGED <<mainVars, results, metrics, dropReasons, consumed, forced,
                   engineVars, ctxVars, samplerVars, syncVars, file, histVars, tgtVars>>

\* the loop over the providers is over: return results
ReturnResults ==
    /\ pc = "loop"
    /\ i > Len(providers)
    /\ pc' = "save"
    /\ UNCHANGED <<mainVars, loopVars, engineVars, ctxVars, samplerVars,
                   syncVars, file, histVars, tgtVars>>

(***************************************************************************)
(* The monitoring goroutine: getProcessByPort, monitorServerMemory.        *)
(***************************************************************************)
\* getProcessByPort: whether a process listening on the port is found
getProcessByPort(port) == port \in listening

\* the goroutine is scheduled and calls getProcessByPort
SamplerBegin ==
    /\ samplerPc = "spawned"
    /\ samplerPc' = "discovering"
    /\ UNCHANGED <<mainVars, pc, loopVars, engineVars, ctxVars, pendingStat,
                   serverMemStats, memMutex, samplesTaken, syncVars, file, histVars, tgtVars>>

\* the mutant of SamplerFound: monitorServerMemory is entered whatever the
\* discovery returned
SamplerFound_always ==
    /\ samplerPc = "discovering"
    /\ samplerPc' = "select"
    /\ UNCHANGED <<mainVars, pc, loopVars, engineVars, ctxVars, pendingStat,
                   serverMemStats, memMutex, samplesTaken, syncVars, file,
                   histVars, tgtVars>>

\* getProcessByPort returns a process: monitorServerMemory starts its ticker
SamplerFound ==
    /\ samplerPc = "discovering"
    /\ getProcessByPort(providers[i].Port)
    /\ samplerPc' = "select"
    /\ UNCHANGED <<mainVars, pc, loopVars, engineVars, ctxVars, pendingStat,
                   serverMemStats, memMutex, samplesTaken, syncVars, file, histVars, tgtVars>>

\* the mutant of SamplerNotFound: the return skips wg.Done()
SamplerNotFound_noDone ==
    /\ samplerPc = "discovering"
    /\ ~getProcessByPort(providers[i].Port)
    /\ samplerPc' = "exited"
    /\ UNCHANGED <<mainVars, pc, loopVars, engineVars, ctxVars, pendingStat,
                   serverMemStats, memMutex, samplesTaken, syncVars, file,
                   histVars, tgtVars>>

\* getProcessByPort returns an error: the warning, return, wg.Done()
SamplerNotFound ==
    /\ samplerPc = "discovering"
    /\ ~getProcessByPort(providers[i].Port)
    /\ samplerPc' = "exited"
    /\ wg' = wg - 1
    /\ UNCHANGED <<mainVars, pc, loopVars, engineVars, ctxVars, pendingStat,
                   serverMemStats, memMutex, samplesTaken, stopMonitoring, file,
                   histVars, tgtVars>>

\* the mutant of SamplerStop: the return on the stop signal skips wg.Done()
SamplerStop_noDone ==
    /\ samplerPc = "select"
    /\ stopMonitoring
    /\ samplerPc' = "exited"
    /\ UNCHANGED <<mainVars, pc, loopVars, engineVars, ctxVars, pendingStat,
                   serverMemStats, memMutex, samplesTaken, syncVars, file,
                   histVars, tgtVars>>

\* case <-stop: return, wg.Done()
SamplerStop ==
    /\ samplerPc = "select"
    /\ stopMonitoring
    /\ samplerPc' = "exited"
    /\ wg' = wg - 1
    /\ UNCHANGED <<mainVars, pc, loopVars, engineVars, ctxVars, pendingStat,
                   serverMemStats, memMutex, samplesTaken, stopMonitoring, file, histVars, tgtVars>>

\* case <-ticker.C with a successful p.MemoryInfo(): the ServerMemStat is built
SamplerTick ==
    /\ samplerPc = "select"
    /\ samplesTaken < MaxSamples
    /\ \E rss \in RSSValues, read \in percentReads :
          pendingStat' = [RSS        |-> rss,
                          MemPercent |-> IF read.err # "" THEN 0 ELSE read.value,
                          err        |-> read.err]
    /\ samplerPc' = "locking"
    /\ samplesTaken' = samplesTaken + 1
    /\ UNCHANGED <<mainVars, pc, loopVars, engineVars, ctxVars, serverMemStats,
                   memMutex, syncVars, file, histVars, tgtVars>>

\* case <-ticker.C with a failing p.MemoryInfo(): continue
SamplerReadError ==
    /\ samplerPc = "select"
    /\ UNCHANGED vars

\* the mutant of SamplerLock: the goroutine goes on to the append without
\* taking the mutex
SamplerLock_noLock ==
    /\ samplerPc = "locking"
    /\ samplerPc' = "append"
    /\ UNCHANGED <<mainVars, pc, loopVars, engineVars, ctxVars, pendingStat,
                   serverMemStats, memMutex, samplesTaken, syncVars, file,
                   histVars, tgtVars>>

\* mutex.Lock() of the goroutine
SamplerLock ==
    /\ samplerPc = "locking"
    /\ memMutex = "free"
    /\ memMutex' = "sampler"
    /\ samplerPc' = "append"
    /\ UNCHANGED <<mainVars, pc, loopVars, engineVars, ctxVars, pendingStat,
                   serverMemStats, samplesTaken, syncVars, file, histVars, tgtVars>>

\* *stats = append(*stats, memStat); mutex.Unlock()
SamplerAppend ==
    /\ samplerPc = "append"
    /\ serverMemStats' = Append(serverMemStats,
                               ServerMemStat(pendingStat.RSS, pendingStat.MemPercent))
    /\ pendingStat' = NoTick
    /\ memMutex' = "free"
    /\ samplerPc' = "select"
    /\ UNCHANGED <<mainVars, pc, loopVars, engineVars, ctxVars, samplesTaken,
                   syncVars, file, histVars, tgtVars>>

(***************************************************************************)
(* saveResults.                                                            *)
(***************************************************************************)
\* whether json.MarshalIndent can write the document: a NaN is an
\* unsupported value
Marshalable(doc) ==
    \A k \in DOMAIN doc : \A f \in FloatFields : doc[k][f] # NaN

\* moments at which a run can save
Times == {1}

\* whether resultsMap is nil after the prior file was read: json.Unmarshal
\* of the text null sets the map to nil and returns no error
NilMap(f) == f.kind = "null"

\* saveResults, whole: read and parse the prior file, overlay the results,
\* marshal, write.  The assignment of the first result to a nil resultsMap
\* panics.  os.WriteFile either writes the document, or fails before it
\* opened the file, or fails after it truncated it.
SaveResults ==
    /\ pc = "save"
    /\ \E now \in Times, outcome \in {"written", "open failed", "write failed"} :
         LET doc == MergedDocument(file, results, now)
         IN  IF NilMap(file) /\ results # <<>>
             THEN /\ pc' = "panic"
                  /\ fatalMsg' = [error |-> "assignment to entry in nil map"]
                  /\ UNCHANGED file
             ELSE IF ~Marshalable(doc)
             THEN /\ pc' = "fatal"
                  /\ fatalMsg' = [error |-> "Error marshaling results"]
                  /\ UNCHANGED file
             ELSE IF outcome = "written"
             THEN /\ pc' = "done"
                  /\ file' = IF NilMap(file) THEN file ELSE [kind |-> "ok", data |-> doc]
                  /\ UNCHANGED fatalMsg
             ELSE /\ pc' = "fatal"
                  /\ fatalMsg' = [error |-> "Error writing results to file"]
                  /\ file' = IF outcome = "open failed" THEN file
                             ELSE [kind |-> "corrupt", data |-> <<>>]
    /\ UNCHANGED <<requested, cooldown, env, listening, providers, loopVars,
                   engineVars, ctxVars, samplerVars, syncVars, histVars, tgtVars>>

(***************************************************************************)
(* The calls of the targeter of the provider being run, by the workers of  *)
(* the attacker.                                                           *)
(***************************************************************************)
CallsBegun == Len(targets) + Cardinality({c \in Workers : callPc[c] # "idle"})

\* counterMutex.Lock()
TgtLock(c) ==
    /\ pc = "attack"
    /\ attack[i] = "running"
    /\ callPc[c] = "idle"
    /\ counterMutex = 0
    /\ CallsBegun < MaxCalls
    /\ counterMutex' = c
    /\ callPc' = [callPc EXCEPT ![c] = "locked"]
    /\ UNCHANGED <<mainVars, pc, loopVars, engineVars, ctxVars, samplerVars, syncVars,
                   file, histVars, targets, clock, dbgVars>>

\* requestCounter++ ; counterMutex.Unlock()
TgtIncrement(c) ==
    /\ callPc[c] = "locked"
    /\ counterMutex = c
    /\ requestCounter' = [requestCounter EXCEPT ![i] = @ + 1]
    /\ counterMutex' = 0
    /\ callPc' = [callPc EXCEPT ![c] = "unlocked"]
    /\ UNCHANGED <<mainVars, pc, loopVars, attack, resultsCh, hits, fates, maxHits,
                   ctxVars, samplerVars, syncVars, file, histVars, targets, clock, dbgVars>>

\* the rest of the call: requestCounter is read without the mutex, so the
\* value read is whatever the counter holds at that moment
TgtBuild(c) ==
    /\ callPc[c] = "unlocked"
    /\ targets' = Append(targets,
                         createTargeter(providers[i], requestCounter[i], clock, env))
    /\ callPc' = [callPc EXCEPT ![c] = "idle"]
    /\ UNCHANGED <<mainVars, pc, loopVars, engineVars, ctxVars, samplerVars, syncVars,
                   file, histVars, counterMutex, clock, dbgVars>>

\* time passes
TgtTick ==
    /\ clock < MaxClock
    /\ clock' = clock + 1
    /\ UNCHANGED <<mainVars, pc, loopVars, engineVars, ctxVars, samplerVars, syncVars,
                   file, histVars, counterMutex, callPc, targets, dbgVars>>

(***************************************************************************)
(* The whole run.                                                          *)
(***************************************************************************)
Orchestrator ==
    \/ Main
    \/ StartMonitoring
    \/ StartAttack
    \/ Consume
    \/ RangeClosed
    \/ EndAttack
    \/ StopMonitoring
    \/ WaitSampler
    \/ CopyLock
    \/ CopyStats
    \/ Cooldown
    \/ ReturnResults
    \/ SaveResults

Sampler ==
    \/ SamplerBegin
    \/ SamplerFound
    \/ SamplerNotFound
    \/ SamplerStop
    \/ SamplerTick
    \/ SamplerReadError
    \/ SamplerLock
    \/ SamplerAppend

Engine == \E k \in ProviderIndices : Hit(k) \/ EngineFinish(k)

Next == Orchestrator \/ Sampler \/ Engine \/ CtxExpire

Spec == Init /\ [][Next]_vars

(***************************************************************************)
(* The attack loop of one provider taken alone: the state when             *)
(* attacker.Attack has been called for a run list of one provider whose    *)
(* process was not discovered, with targets that answer in every way.      *)
(***************************************************************************)
InitAttack ==
    /\ InitCommon
    /\ env = EnvFull
    /\ i = 1
    /\ requested = Bifrost
    /\ cooldown = 0
    /\ listening = {}
    /\ file = NoFile
    /\ priorFile = file
    /\ duration = 10
    /\ deadline = 0
    /\ percentReads = {PercentOK}
    /\ fates = Outcomes
    /\ maxHits = MaxAttackHits - 1
    /\ providers = <<Registry[1]>>
    /\ attack = [k \in ProviderIndices |-> IF k = 1 THEN "running" ELSE "idle"]
    /\ samplerPc = "exited"
    /\ wg = 0
    /\ results = <<>>
    /\ pc = "attack"

NextAttack ==
    \/ Hit(1)
    \/ EngineFinish(1)
    \/ CtxExpire
    \/ Consume
    \/ RangeClosed
    \/ EndAttack
    \/ StopMonitoring

SpecAttack == InitAttack /\ [][NextAttack]_vars

(***************************************************************************)
(* The attack loop of one provider with its clock: clock counts the        *)
(* seconds since attacker.Attack was called.  The attacker issues requests *)
(* while the requested duration lasts and closes the outcome sequence      *)
(* after it; the context is done when its timeout has passed.  The loop,   *)
(* blocked on the sequence, takes an offered outcome before the clock      *)
(* moves on.                                                               *)
(***************************************************************************)
\* the default of -duration, and durations beyond the fixed ceiling
DurationChoices == {10, 270, 300}

InitTimed ==
    /\ InitCommon
    /\ env = EnvFull
    /\ i = 1
    /\ requested = Bifrost
    /\ cooldown = 0
    /\ listening = {}
    /\ file = NoFile
    /\ priorFile = file
    /\ percentReads = {PercentOK}
    /\ duration \in DurationChoices
    /\ deadline = WallClockCeiling(duration)
    /\ fates \in FateChoices
    /\ maxHits = MaxAttackHits - 1
    /\ providers = <<Registry[1]>>
    /\ attack = [k \in ProviderIndices |-> IF k = 1 THEN "running" ELSE "idle"]
    /\ samplerPc = "exited"
    /\ wg = 0
    /\ results = <<>>
    /\ pc = "attack"

\* the clock when the context was made and the attack called
AttackBegan == deadline - WallClockCeiling(duration)

\* a request of the attack: only while the duration lasts
HitTimed == i <= Len(providers) /\ clock < AttackBegan + duration /\ Hit(i)

\* close(results): only when the duration is over
EngineFinishTimed ==
    i <= Len(providers) /\ clock >= AttackBegan + duration /\ EngineFinish(i)

\* <-ctx.Done() becomes ready: the timeout has passed
CtxExpireTimed == clock >= deadline /\ CtxExpire

\* time passes while the loop waits for an outcome
Advance ==
    /\ pc = "attack"
    /\ resultsCh[i] = <<>>
    /\ clock + TimeStep <= MaxTime
    /\ clock' = clock + TimeStep
    /\ UNCHANGED <<mainVars, pc, loopVars, engineVars, ctxVars, samplerVars,
                   syncVars, file, histVars, counterMutex, callPc, targets, dbgVars>>

NextTimed ==
    \/ HitTimed
    \/ EngineFinishTimed
    \/ CtxExpireTimed
    \/ Advance
    \/ Consume
    \/ RangeClosed
    \/ EndAttack
    \/ StopMonitoring

SpecTimed == InitTimed /\ [][NextTimed]_vars

(***************************************************************************)
(* runBenchmarks with its clock over the whole registry, none of whose     *)
(* processes is found: time passes while the loop waits for an outcome and *)
(* while the orchestrator sleeps between two providers.                    *)
(***************************************************************************)
InitTimedRun ==
    /\ InitCommon
    /\ env = EnvFull
    /\ i = 1
    /\ requested = <<>>
    /\ cooldown = 5
    /\ listening = {}
    /\ file = NoFile
    /\ priorFile = file
    /\ percentReads = {PercentOK}
    /\ duration \in {10, 270}
    /\ deadline = 0
    /\ fates = {ResultOfStatus(200)}
    /\ maxHits = MaxExtraHits
    /\ providers = Registry
    /\ attack = [k \in ProviderIndices |-> "idle"]
    /\ samplerPc = "idle"
    /\ wg = 0
    /\ results = <<>>
    /\ pc = "loop"

\* time passes during time.Sleep
Sleep ==
    /\ pc = "cooldown"
    /\ clock + TimeStep <= MaxTime
    /\ clock' = clock + TimeStep
    /\ UNCHANGED <<mainVars, pc, loopVars, engineVars, ctxVars, samplerVars,
                   syncVars, file, histVars, counterMutex, callPc, targets, dbgVars>>

NextTimedRun ==
    \/ StartMonitoring
    \/ StartAttack
    \/ HitTimed
    \/ EngineFinishTimed
    \/ CtxExpireTimed
    \/ Advance
    \/ Consume
    \/ RangeClosed
    \/ EndAttack
    \/ StopMonitoring
    \/ SamplerBegin
    \/ SamplerNotFound
    \/ WaitSampler
    \/ CopyLock
    \/ CopyStats
    \/ Sleep
    \/ Cooldown
    \/ ReturnResults

SpecTimedRun == InitTimedRun /\ [][NextTimedRun]_vars

(***************************************************************************)
(* saveResults taken alone, on every prior file and result list of the     *)
(* bounded sets below.                                                     *)
(***************************************************************************)
\* a closed vegeta.Metrics of n requests, all answered 200
MetricsOf(n) ==
    [Requests |-> n, success |-> n, StatusCodes |-> (ToString(200) :> n),
     Success |-> <<1, 1>>, closed |-> TRUE]

SavedNames == {Bifrost, ToLower(Bifrost), Litellm}

SavedResults ==
    {[ProviderName |-> nm, Metrics |-> MetricsOf(n), ServerMemoryStats |-> <<ServerMemStat(n * BytesPerMB, 5)>>,
      DropReasons |-> EmptyMap] : nm \in SavedNames, n \in {1, 2}}

\* result lists of at most n results
RECURSIVE ResultLists(_)
ResultLists(n) ==
    IF n = 0 THEN {<<>>}
    ELSE ResultLists(n - 1)
           \cup {Append(l, r) : l \in {x \in ResultLists(n - 1) : Len(x) = n - 1},
                                r \in SavedResults}

\* prior files: none, unreadable, unparseable after one entry was decoded,
\* the text null,
\* and documents written by this harness, by the variant with error_rate, and
\* in the documented format
SavedFileChoices ==
    {NoFile,
     [kind |-> "unreadable", data |-> <<>>],
     [kind |-> "corrupt", data |-> (ToLower(Litellm) :> OldEntry(7))],
     [kind |-> "null", data |-> <<>>],
     [kind |-> "ok", data |-> <<>>],
     [kind |-> "ok", data |-> (ToLower(Litellm) :> OldEntry(7))],
     [kind |-> "ok", data |-> (ToLower(Bifrost) :> OldEntry(7))
                               @@ (ToLower(Helicone) :> OldEntry(9))],
     [kind |-> "ok", data |-> (Bifrost :> OldEntry(7))],
     [kind |-> "ok", data |-> (ToLower(Litellm) :> OldEntryErrorRate(7))],
     [kind |-> "ok", data |-> (ToLower(Litellm) :> OldEntryDocumented(7))]}

InitSave ==
    /\ InitCommon
    /\ env = EnvFull
    /\ i = 1
    /\ requested = <<>>
    /\ cooldown = 0
    /\ listening = {}
    /\ file \in SavedFileChoices
    /\ priorFile = file
    /\ duration = 10
    /\ deadline = 0
    /\ percentReads = {PercentOK}
    /\ fates = Outcomes
    /\ maxHits = 0
    /\ providers = Registry
    /\ attack = [k \in ProviderIndices |-> "closed"]
    /\ samplerPc = "exited"
    /\ wg = 0
    /\ pc = "save"
    /\ results \in ResultLists(MaxResults) \ {<<>>}

NextSave == SaveResults

SpecSave == InitSave /\ [][NextSave]_vars

(***************************************************************************)
(* saveResults applied to one result whose sample sequence is any sequence *)
(* of at most MaxSeqLen samples.                                           *)
(***************************************************************************)
\* resident-set sizes of the samples, in bytes: whole and broken megabytes
SampleRSS == {BytesPerMB, 1572864, 3 * BytesPerMB}

RECURSIVE SampleLists(_)
SampleLists(n) ==
    IF n = 0 THEN {<<>>}
    ELSE SampleLists(n - 1)
           \cup {Append(l, ServerMemStat(r, 5)) :
                    l \in {x \in SampleLists(n - 1) : Len(x) = n - 1},
                    r \in SampleRSS}

InitMem ==
    /\ InitCommon
    /\ env = EnvFull
    /\ i = 1
    /\ requested = Bifrost
    /\ cooldown = 0
    /\ listening = {"3001"}
    /\ file \in {NoFile, PriorFile}
    /\ priorFile = file
    /\ duration = 10
    /\ deadline = 0
    /\ percentReads = {PercentOK}
    /\ fates = Outcomes
    /\ maxHits = 0
    /\ providers = <<Registry[1]>>
    /\ attack = [k \in ProviderIndices |-> "closed"]
    /\ samplerPc = "exited"
    /\ wg = 0
    /\ pc = "save"
    /\ \E stats \in SampleLists(MaxSeqLen) :
          results = <<BenchmarkResult(Registry[1], MetricsOf(1), stats, EmptyMap)>>

SpecMem == InitMem /\ [][NextSave]_vars

(***************************************************************************)
(* The targeter of one provider taken alone: the workers of a running      *)
(* attacker call it concurrently.                                          *)
(***************************************************************************)
InitTargeter ==
    /\ InitCommon
    /\ env = EnvFull
    /\ requested = <<>>
    /\ cooldown = 0
    /\ listening = {}
    /\ file = NoFile
    /\ priorFile = file
    /\ duration = 10
    /\ deadline = 0
    /\ percentReads = {PercentOK}
    /\ fates = Outcomes
    /\ maxHits = 0
    /\ providers = Registry
    /\ \E k \in ProviderIndices :
          /\ i = k
          /\ attack = [j \in ProviderIndices |-> IF j = k THEN "running" ELSE "idle"]
    /\ samplerPc = "exited"
    /\ wg = 0
    /\ results = <<>>
    /\ pc = "attack"

NextTargeter ==
    \/ \E c \in Workers : TgtLock(c) \/ TgtIncrement(c) \/ TgtBuild(c)
    \/ TgtTick

SpecTargeter == InitTargeter /\ [][NextTargeter]_vars

(***************************************************************************)
(* The attack loop of the credential-requiring provider taken alone, in    *)
(* the registry where it is registered, with and without OPENAI_API_KEY.   *)
(***************************************************************************)
EnvPortkey ==
    [loaded |-> TRUE,
     vars   |-> ("BIFROST_PORT" :> "3001") @@ ("PORTKEY_PORT" :> "3004")]

EnvPortkeyWithKey ==
    [EnvPortkey EXCEPT !.vars = @ @@ ("OPENAI_API_KEY" :> "sk-test")]

InitPortkey ==
    /\ InitCommon
    /\ env \in {EnvPortkey, EnvPortkeyWithKey}
    /\ i = 1
    /\ requested = Portkey
    /\ cooldown = 0
    /\ listening = {}
    /\ file = NoFile
    /\ priorFile = file
    /\ duration = 10
    /\ deadline = 0
    /\ percentReads = {PercentOK}
    /\ fates = Outcomes
    /\ maxHits = MaxAttackHits - 1
    /\ providers = <<initializeProvidersVariant(env)[2]>>
    /\ attack = [k \in ProviderIndices |-> IF k = 1 THEN "running" ELSE "idle"]
    /\ samplerPc = "exited"
    /\ wg = 0
    /\ results = <<>>
    /\ pc = "attack"

SpecPortkey == InitPortkey /\ [][NextAttack]_vars

(***************************************************************************)
(* The run from the start of initializeProviders, with environments in     *)
(* which the .env file could not be loaded or lacks a port.                *)
(***************************************************************************)
\* the .env file lacks LITELLM_PORT
EnvNoLitellmPort ==
    [loaded |-> TRUE,
     vars   |-> ("BIFROST_PORT" :> "3001") @@ ("HELICONE_PORT" :> "3003")]

\* there is no .env file
EnvNotLoaded == [loaded |-> FALSE, vars |-> <<>>]

EnvChoices == {EnvFull, EnvNoLitellmPort, EnvNotLoaded}

\* initializeProviders as main calls it: fatal when godotenv.Load fails,
\* else the registry with whatever os.Getenv returns for the ports
InitializeProviders ==
    /\ pc = "init"
    /\ IF ~env.loaded
       THEN /\ pc' = "fatal"
            /\ fatalMsg' = [error |-> "Error loading .env file"]
            /\ UNCHANGED providers
       ELSE /\ pc' = "main"
            /\ providers' = initializeProviders(env, "gpt-4o-mini", "v1")
            /\ UNCHANGED fatalMsg
    /\ UNCHANGED <<requested, cooldown, env, listening, loopVars, engineVars,
                   ctxVars, samplerVars, syncVars, file, histVars, tgtVars>>

InitConfig ==
    /\ InitCommon
    /\ env \in EnvChoices
    /\ i = 1
    /\ requested \in {<<>>, ToLower(Litellm)}
    /\ cooldown = 5
    /\ listening = {"3001"}
    /\ file = PriorFile
    /\ priorFile = file
    /\ duration = 10
    /\ deadline = 0
    /\ percentReads = {PercentOK}
    /\ fates = {[Code |-> 0, Error |-> TransportFailure]}
    /\ maxHits = MaxExtraHits
    /\ providers = <<>>
    /\ attack = [k \in ProviderIndices |-> "idle"]
    /\ samplerPc = "idle"
    /\ wg = 0
    /\ results = <<>>
    /\ pc = "init"

NextConfig == InitializeProviders \/ Next

SpecConfig == InitConfig /\ [][NextConfig]_vars

(***************************************************************************)
(* runBenchmarks taken alone: the state when main calls it with the whole  *)
(* registry as the run list and a cooldown between providers.  The first   *)
(* provider's process is listening, the third one's may be.                *)
(***************************************************************************)
InitRun ==
    /\ InitCommon
    /\ env = EnvFull
    /\ i = 1
    /\ requested = <<>>
    /\ cooldown = 5
    /\ listening \in {{"3001"}, {"3001", "3003"}}
    /\ file = NoFile
    /\ priorFile = file
    /\ duration = 10
    /\ deadline = 0
    /\ percentReads = {PercentOK, PercentFailed}
    /\ fates \in FateChoices
    /\ maxHits = MaxExtraHits
    /\ providers = Registry
    /\ attack = [k \in ProviderIndices |-> "idle"]
    /\ samplerPc = "idle"
    /\ wg = 0
    /\ results = <<>>
    /\ pc = "loop"

NextRun ==
    \/ StartMonitoring
    \/ StartAttack
    \/ Consume
    \/ RangeClosed
    \/ EndAttack
    \/ StopMonitoring
    \/ WaitSampler
    \/ CopyLock
    \/ CopyStats
    \/ Cooldown
    \/ ReturnResults
    \/ Sampler
    \/ Engine
    \/ CtxExpire

SpecRun == InitRun /\ [][NextRun]_vars

(***************************************************************************)
(* The run of one provider with the scheduling the Go runtime gives: a     *)
(* goroutine that can run does run (weak fairness of the steps of the      *)
(* sampler and of the orchestrator's close and wait), and a select with    *)
(* several ready cases picks each of them again and again (strong fairness *)
(* of the stop case, which is ready each time the sampler is back at its   *)
(* select).                                                                *)
(***************************************************************************)
InitJoin ==
    /\ InitCommon
    /\ env = EnvFull
    /\ i = 1
    /\ requested = Bifrost
    /\ cooldown = 0
    /\ listening \in {{}, {"3001"}}
    /\ file = NoFile
    /\ priorFile = file
    /\ percentReads = {PercentOK, PercentFailed}
    /\ duration = 10
    /\ deadline = 0
    /\ fates \in FateChoices
    /\ maxHits = MaxExtraHits
    /\ providers = <<Registry[1]>>
    /\ attack = [k \in ProviderIndices |-> "idle"]
    /\ samplerPc = "idle"
    /\ wg = 0
    /\ results = <<>>
    /\ pc = "loop"

NextJoin ==
    \/ StartMonitoring
    \/ StartAttack
    \/ Consume
    \/ RangeClosed
    \/ EndAttack
    \/ StopMonitoring
    \/ WaitSampler
    \/ CopyLock
    \/ CopyStats
    \/ ReturnResults
    \/ Sampler
    \/ Engine
    \/ CtxExpire

SpecJoinFair ==
    /\ InitJoin
    /\ [][NextJoin]_vars
    /\ WF_vars(StopMonitoring)
    /\ WF_vars(WaitSampler)
    /\ WF_vars(SamplerBegin)
    /\ WF_vars(SamplerFound)
    /\ WF_vars(SamplerNotFound)
    /\ SF_vars(SamplerStop)
    /\ WF_vars(SamplerLock)
    /\ WF_vars(SamplerAppend)

(***************************************************************************)
(* The debug server: concurrent requests to DebugHandler, alone and with   *)
(* the operations that read the counters.                                  *)
(***************************************************************************)
InitDebug ==
    /\ InitCommon
    /\ env = EnvFull
    /\ requested = <<>>
    /\ cooldown = 0
    /\ listening = {}
    /\ file = NoFile
    /\ priorFile = file
    /\ duration = 10
    /\ deadline = 0
    /\ percentReads = {PercentOK}
    /\ fates = Outcomes
    /\ maxHits = 0
    /\ providers = Registry
    /\ i = 1
    /\ attack = [j \in ProviderIndices |-> "idle"]
    /\ samplerPc = "exited"
    /\ wg = 0
    /\ results = <<>>
    /\ pc = "done"

NextDebug ==
    \/ \E r \in Requests : DebugHandler(r)
    \/ \E r \in Requests : BackendComplete(r)

SpecDebug == InitDebug /\ [][NextDebug]_vars

NextMutex ==
    \/ NextDebug
    \/ GetMetricsHandler
    \/ PrintServerMetrics
    \/ PrintStats

SpecMutex == InitDebug /\ [][NextMutex]_vars

(***************************************************************************)
(* Properties.                                                             *)
(***************************************************************************)
\* the registry entries whose name is the requested one up to letter case
MatchingIndices == {k \in DOMAIN Registry : ToLower(Registry[k].Name) = ToLower(requested)}

FirstMatch == CHOOSE k \in MatchingIndices : \A j \in MatchingIndices : k <= j

\* log.Fatalf of main's filter has been called
FilterFatal == pc = "fatal" /\ "provider" \in DOMAIN fatalMsg

\* C1: when the requested name is not empty and equals the name of some
\* registry entry up to letter case, the run list main hands to runBenchmarks
\* is exactly the first such entry, and main does not end in the fatal error
\* of the filter.
C1_RunListIsTheMatch ==
    (pc # "main" /\ requested # <<>> /\ MatchingIndices # {})
        => /\ providers = <<Registry[FirstMatch]>>
           /\ ~FilterFatal

C1_Witness ==
    /\ pc = "attack"
    /\ requested = ToLower(Litellm)
    /\ providers = <<Registry[2]>>

\* C2: when the requested name matches no registry entry under case folding,
\* main ends in the fatal error, whose message lists the (lower-cased) name of
\* every registry entry; no sampler was started, no request was generated and
\* the results file is as it was.
C2_UnknownProviderIsFatal ==
    (pc # "main" /\ requested # <<>>
       /\ \A k \in DOMAIN Registry : ~EqualFold(Registry[k].Name, requested))
        => /\ FilterFatal
           /\ \A k \in DOMAIN Registry :
                \E j \in DOMAIN fatalMsg.available :
                    fatalMsg.available[j] = ToLower(Registry[k].Name)
           /\ samplerPc = "idle" /\ wg = 0
           /\ \A k \in ProviderIndices : attack[k] = "idle" /\ requestCounter[k] = 0
           /\ hits = 0
           /\ results = <<>>
           /\ file = priorFile

C2_Witness ==
    /\ FilterFatal
    /\ requested = Portkey
    /\ Len(fatalMsg.available) = 3

\* the consumed outcomes that carry an error string
WithError == {k \in DOMAIN consumed : consumed[k].Error # ""}

\* the consumed outcomes without error whose status is not 200
Non200 == {k \in DOMAIN consumed : consumed[k].Error = "" /\ consumed[k].Code # 200}

\* the attack loop of the provider being run has ended
LoopEnded == pc \in {"EndAttack", "stop", "wait", "lock", "copy"}

\* C3: at every moment of an attack loop and after it, the counts of the
\* provider's drop-reason histogram sum to K + M, plus 1 if the loop was left
\* by the forced timeout (M consumed outcomes with an error string, K without
\* error and with a status other than 200).
C3_DropReasonTotal ==
    (pc = "attack" \/ LoopEnded)
        => MapSum(dropReasons)
             = Cardinality(Non200) + Cardinality(WithError) + (IF forced THEN 1 ELSE 0)

C3_Witness ==
    /\ pc = "stop"
    /\ forced
    /\ Cardinality(Non200) = 1
    /\ Cardinality(WithError) = 2
    /\ MapSum(dropReasons) = 4

\* C4 as stated: the success rate is (N - K - M) / N * 100.
C4_Original ==
    (pc = "stop" /\ Len(consumed) > 0)
        => Times100(metrics.Success)
             = Rat(100 * (Len(consumed) - Cardinality(Non200) - Cardinality(WithError)),
                   Len(consumed))

\* the consumed outcomes with a status from 200 to 399
Status2xx3xx == {k \in DOMAIN consumed : consumed[k].Code >= 200 /\ consumed[k].Code < 400}

\* C4, amended: the success rate printed and stored for the provider is
\* S / N * 100, S the number of consumed outcomes with a status from 200 to
\* 399: an outcome without error whose status is not 200 (a 201) is a success
\* although it is counted as a drop.
C4_SuccessRate ==
    (pc = "stop" /\ Len(consumed) > 0)
        => /\ Times100(metrics.Success)
                = Rat(100 * Cardinality(Status2xx3xx), Len(consumed))
           /\ Projection(BenchmarkResult(providers[i], metrics, serverMemStats,
                                         dropReasons), 1)["success_rate"]
                = Rat(100 * Cardinality(Status2xx3xx), Len(consumed))

C4_Witness ==
    /\ pc = "stop"
    /\ Len(consumed) = 3
    /\ Cardinality(Non200) = 1
    /\ Cardinality(WithError) = 1
    /\ Times100(metrics.Success) = <<200, 3>>

\* C10 as stated, for the runs that end: when the ceiling expired while the
\* attack loop was running, the loop has ended with "context_timeout" recorded.
C10_Original ==
    (LoopEnded /\ expiredInLoop) => "context_timeout" \in DOMAIN dropReasons

\* the keys the results of this run are stored at
NewKeys == {ToLower(results[j].ProviderName) : j \in DOMAIN results}

\* C7 as stated: after saveResults on a readable, parseable prior document,
\* every prior entry whose key is not the lower-cased name of a new result is
\* in the written document, equal to its prior value.
C7_Original ==
    (pc = "done" /\ priorFile.kind = "ok")
        => \A k \in DOMAIN priorFile.data \ NewKeys :
              /\ k \in DOMAIN file.data
              /\ file.data[k] = priorFile.data[k]

\* the last result of the list that is stored at key
LastAt(key) ==
    CHOOSE j \in DOMAIN results :
        /\ ToLower(results[j].ProviderName) = key
        /\ \A l \in DOMAIN results : ToLower(results[l].ProviderName) = key => l <= j

\* C8: after saveResults, the written document has at the lower-cased name of
\* every new result the projection of the last result of the list with that
\* lower-cased name, whatever the prior document held at that key.
C8_StoredAtLowerCasedName ==
    pc = "done"
        => \A j \in DOMAIN results :
             LET key == ToLower(results[j].ProviderName)
             IN  /\ key \in DOMAIN file.data
                 /\ \E now \in Times :
                       file.data[key] = Projection(results[LastAt(key)], now)
                 /\ file.data[key]["requests"] = results[LastAt(key)].Metrics.Requests

C8_Witness ==
    /\ pc = "done"
    /\ Len(results) = 2
    /\ results[1].ProviderName = Bifrost
    /\ results[2].ProviderName = ToLower(Bifrost)
    /\ results[1].Metrics.Requests = 1
    /\ results[2].Metrics.Requests = 2
    /\ ToLower(Bifrost) \in DOMAIN priorFile.data
    /\ file.data[ToLower(Bifrost)]["requests"] = 2

\* no process listens on the port of the k-th provider of the run list
NotDiscovered(k) == ~getProcessByPort(providers[k].Port)

\* the steps of runBenchmarks for the provider being run
InProviderRun ==
    pc \in {"ctx", "attack", "EndAttack", "stop", "wait", "lock", "copy"}

\* C9: when no process listening on a provider's port is discovered, the
\* goroutine ends without a sample and with the WaitGroup released, so that
\* the join cannot hold the run; the provider's result has a closed metrics
\* of the consumed outcomes and no sample; and the stored entry has
\* server_peak_memory_mb = 0 and server_avg_memory_mb = 0.
C9_NoProcessStillCompletes ==
    /\ (InProviderRun /\ NotDiscovered(i))
          => /\ serverMemStats = <<>>
             /\ samplerPc \in {"spawned", "discovering", "exited"}
             /\ samplerPc = "exited" => wg = 0
    /\ \A k \in DOMAIN results :
          NotDiscovered(k)
             => /\ results[k].ServerMemoryStats = <<>>
                /\ results[k].Metrics.closed
                /\ results[k].Metrics.Requests >= 1
    /\ pc = "done"
          => \A k \in DOMAIN results :
                NotDiscovered(k)
                   => LET e == file.data[ToLower(providers[k].Name)]
                      IN  /\ e["server_peak_memory_mb"] = <<0, 1>>
                          /\ e["server_avg_memory_mb"] = <<0, 1>>

C9_Witness ==
    /\ pc = "done"
    /\ listening = {"3001"}
    /\ Len(results) = 3
    /\ file.data[ToLower(Litellm)]["server_peak_memory_mb"] = <<0, 1>>
    /\ file.data[ToLower(Bifrost)]["server_peak_memory_mb"] = <<2, 1>>

\* no call of the targeter is in progress
NoCallInProgress == \A c \in Workers : callPc[c] = "idle"

\* the content of the first message of the body of a target
ContentOf(t) == Unmarshal(t.Body)["messages"][1]["content"]

\* where the content template has the placeholder
PositionOf(placeholder) ==
    CHOOSE p \in DOMAIN ContentTemplate : ContentTemplate[p] = placeholder

\* the request index substituted into the body of a target
IndexOf(t) == ContentOf(t)[PositionOf("#{request_index}")]

TimestampOf(t) == ContentOf(t)[PositionOf("#{timestamp}")]

\* C5 as stated: when n calls of the targeter have returned, whatever their
\* interleaving, the indices substituted into their payloads are exactly
\* 1..n, each in one payload.
C5_Original ==
    NoCallInProgress
        => /\ {IndexOf(targets[a].tgt) : a \in DOMAIN targets}
                 = {ToString(n) : n \in 1..Len(targets)}
           /\ \A a, b \in DOMAIN targets :
                 IndexOf(targets[a].tgt) = IndexOf(targets[b].tgt) => a = b

Placeholders == {"#{request_index}", "#{timestamp}"}

\* two targets are the same but for the pieces of the first message's
\* content that replaced a placeholder
SameShape(t, u) ==
    LET b == Unmarshal(t.Body)
        d == Unmarshal(u.Body)
    IN  /\ t.Method = u.Method
        /\ t.URL = u.URL
        /\ t.Header = u.Header
        /\ DOMAIN b = DOMAIN d
        /\ \A k \in DOMAIN b \ {"messages"} : b[k] = d[k]
        /\ Len(b["messages"]) = Len(d["messages"])
        /\ \A m \in DOMAIN b["messages"] :
              /\ DOMAIN b["messages"][m] = DOMAIN d["messages"][m]
              /\ \A k \in DOMAIN b["messages"][m] :
                    (m # 1 \/ k # "content") => b["messages"][m][k] = d["messages"][m][k]
        /\ Len(ContentOf(t)) = Len(ContentOf(u))
        /\ \A p \in DOMAIN ContentOf(t) :
              ContentTemplate[p] \notin Placeholders => ContentOf(t)[p] = ContentOf(u)[p]

\* C6: the calls of a provider's targeter leave the provider's payload
\* template as initializeProviders built it; every target is a POST to the
\* provider's endpoint with Content-Type application/json whose body has the
\* members of the template; and two targets differ only in the pieces of the
\* first message's content that replaced the request index and the timestamp.
C6_SameShape ==
    /\ providers = Registry
    /\ \A a \in DOMAIN targets :
          LET t == targets[a].tgt
          IN  /\ t.Method = "POST"
              /\ t.URL = providers[i].Endpoint
              /\ t.Header = ("Content-Type" :> <<"application/json">>)
              /\ Len(ContentOf(t)) = Len(ContentTemplate)
              /\ \A p \in DOMAIN ContentTemplate :
                    ContentTemplate[p] \notin Placeholders
                       => ContentOf(t)[p] = ContentTemplate[p]
              /\ [Unmarshal(t.Body) EXCEPT !["messages"][1]["content"] = ContentTemplate]
                    = Unmarshal(providers[i].Payload)
    /\ \A a, b \in DOMAIN targets : SameShape(targets[a].tgt, targets[b].tgt)

C6_Witness ==
    /\ Len(targets) >= 2
    /\ IndexOf(targets[1].tgt) = "1"
    /\ IndexOf(targets[2].tgt) = "2"
    /\ TimestampOf(targets[1].tgt) # TimestampOf(targets[2].tgt)
    /\ targets[1].tgt.URL = targets[2].tgt.URL

\* every request of the run ends in a transport error
AllTransportErrors == fates = {[Code |-> 0, Error |-> TransportFailure]}

\* C11 as stated: in a run where every request ends in a transport error the
\* attack loop of a provider is over when its ceiling expires, so that the
\* loop consumes no outcome that was delivered after the expiry, and
\* runBenchmarks returns a result for every provider.
C11_Original ==
    /\ [][(AllTransportErrors /\ pc = "attack" /\ expiredInLoop)
              => consumed' = consumed]_vars
    /\ []((AllTransportErrors /\ pc = "save") => Len(results) = Len(providers))

\* every outcome the loop consumed carries a transport error
ConsumedAllFailed == \A k \in DOMAIN consumed : consumed[k].Code = 0 /\ consumed[k].Error # ""

\* C12: when every outcome consumed for a provider carries a transport
\* error, the success rate is 0 and the counts of the drop-reason histogram
\* sum to the requests recorded in the metrics, plus the one context_timeout
\* when the loop was ended by the forced timeout.
C12_AllFailed ==
    (pc = "stop" /\ ConsumedAllFailed)
        => /\ Times100(metrics.Success) = <<0, 1>>
           /\ Projection(BenchmarkResult(providers[i], metrics, serverMemStats,
                                         dropReasons), 1)["success_rate"] = <<0, 1>>
           /\ metrics.Requests = Len(consumed)
           /\ MapSum(dropReasons) = metrics.Requests + (IF forced THEN 1 ELSE 0)

C12_Witness ==
    /\ pc = "stop"
    /\ ConsumedAllFailed
    /\ ~forced
    /\ metrics.Requests = 2
    /\ dropReasons = (TransportFailure :> 2)

\* every request of the run is answered with status 200
AllOK == fates = {ResultOfStatus(200)}

TimedOutOnly == "context_timeout" :> 1

\* the entry stored for the k-th provider of the run list
StoredEntry(k) == file.data[ToLower(providers[k].Name)]

\* C13 as stated: when every outcome consumed for a provider has status 200
\* and no error, the stored entry has success_rate 100 and status_code_counts
\* with the count of "200" equal to requests, and the drop-reason histogram of
\* the provider is empty.
C13_Original ==
    (AllOK /\ pc = "done")
        => \A k \in DOMAIN results :
              /\ StoredEntry(k)["success_rate"] = <<100, 1>>
              /\ StoredEntry(k)["status_code_counts"]
                    = JsonMap(ToString(200) :> StoredEntry(k)["requests"])
              /\ results[k].DropReasons = EmptyMap

\* C13: when every outcome consumed for a provider has status 200 and no
\* error, the stored entry has success_rate 100 and status_code_counts with
\* the one key "200" whose count is requests, and the drop-reason histogram
\* is empty when the loop ended with the outcome sequence, and holds one
\* context_timeout and nothing else when it was ended by the forced timeout.
C13_AllOK ==
    /\ (AllOK /\ pc = "stop")
          => dropReasons = IF forced THEN TimedOutOnly ELSE EmptyMap
    /\ (AllOK /\ pc = "done")
          => \A k \in DOMAIN results :
                /\ StoredEntry(k)["requests"] >= 1
                /\ StoredEntry(k)["success_rate"] = <<100, 1>>
                /\ StoredEntry(k)["status_code_counts"]
                      = JsonMap(ToString(200) :> StoredEntry(k)["requests"])
                /\ results[k].DropReasons \in {EmptyMap, TimedOutOnly}

C13_Witness ==
    /\ AllOK
    /\ pc = "done"
    /\ Len(results) = 3
    /\ results[1].DropReasons = EmptyMap
    /\ results[2].DropReasons = TimedOutOnly
    /\ StoredEntry(2)["success_rate"] = <<100, 1>>
    /\ StoredEntry(2)["requests"] = 2

\* the provider being run needs the credential and the credential is unset
CredentialMissing ==
    /\ providers[i].Name = Portkey
    /\ Getenv(env, "OPENAI_API_KEY") = ""

\* C14 as stated: when the targeter of Portkey is called while OPENAI_API_KEY
\* is unset, the error fails that one request only: as long as the attack has
\* requests left to issue and has not closed its outcome sequence, it goes on
\* issuing them.
C14_Original ==
    (/\ CredentialMissing
     /\ pc = "attack"
     /\ attack[i] # "closed"
     /\ resultsCh[i] = <<>>
     /\ hits < maxHits)
        => ENABLED Hit(i)

\* the prior file exists and cannot be parsed as a mapping
PriorUnparseable == priorFile.kind \in {"corrupt", "null"}

\* saveResults is over, in whatever way
SaveEnded == pc \in {"done", "fatal", "panic"}

\* C15 as stated: when the existing results file cannot be parsed as a
\* mapping, the prior file does not end the run, and the document that is
\* written holds the entries of the current run and nothing else.
C15_Original ==
    PriorUnparseable
        => /\ pc # "panic"
           /\ pc = "fatal" => fatalMsg.error = "Error writing results to file"
           /\ pc = "done"
                 => /\ file.kind = "ok"
                    /\ DOMAIN file.data = NewKeys

\* C16 as stated: at every point the file at the output path holds the
\* complete prior document or the complete merged document.
C16_Original ==
    \/ file = priorFile
    \/ /\ file.kind = "ok"
       /\ \E now \in Times : file.data = MergedDocument(priorFile, results, now)

\* C18 as stated: saveResults reports the results as saved only when the
\* merged document is in the file, a failure to write it is fatal, and a
\* prior file that cannot be read or parsed never ends the run by itself.
C18_Original ==
    /\ pc = "done"
          => /\ file.kind = "ok"
             /\ \E now \in Times : file.data = MergedDocument(priorFile, results, now)
    /\ (SaveEnded /\ file = priorFile) => pc = "fatal"
    /\ priorFile.kind \in {"unreadable", "corrupt", "null"}
          => /\ pc # "panic"
             /\ pc = "fatal" => fatalMsg.error = "Error writing results to file"

\* the environment values the registry needs
PortVars == {"BIFROST_PORT", "LITELLM_PORT", "HELICONE_PORT"}

\* a required environment value is absent
MissingPort == \E v \in PortVars : Getenv(env, v) = ""

\* C17 as stated: when the port value of a provider of the registry is
\* absent, initialisation is fatal: main does not get past it, no request is
\* issued, and no provider with an empty port is benchmarked.
C17_Original ==
    MissingPort
        => /\ \A k \in ProviderIndices : requestCounter[k] = 0
           /\ pc \in {"attack", "EndAttack", "stop"} => providers[i].Port # ""
           /\ pc \notin {"save", "done"}

\* C19: an outcome with a transport error or a status other than 200 does
\* not end the attack loop: when the loop consumes an outcome while the
\* ceiling has not expired it stays in the loop, and it leaves the loop only
\* when the outcome sequence is closed and drained or the ceiling has expired.
C19_OnlyExhaustionOrCeiling ==
    [][/\ (pc = "attack" /\ consumed' # consumed /\ ~ctxDone) => pc' = "attack"
       /\ (pc = "attack" /\ pc' # "attack")
             => /\ pc' = "EndAttack"
                /\ \/ ctxDone /\ forced'
                   \/ attack[i] = "closed" /\ resultsCh[i] = <<>> /\ ~forced']_vars

C19_Witness ==
    /\ pc = "attack"
    /\ ~ctxDone
    /\ Len(consumed) = 2
    /\ consumed[1].Error = TransportFailure
    /\ consumed[2].Code = 500
    /\ attack[i] = "running"
    /\ dropReasons = (TransportFailure :> 1) @@ (StatusText(500) :> 1)

\* C20: runBenchmarks pauses only with cooldown > 0 and after a provider that
\* is not the last, when that provider's sampler has been joined and its
\* result appended; it goes on to the next provider from the pause when
\* these conditions hold and straight from the append when they do not; the
\* pause is followed by the start of the next provider.
C20_CooldownBetweenProviders ==
    /\ [](pc = "cooldown"
            => /\ cooldown > 0
               /\ i < Len(providers)
               /\ Len(results) = i
               /\ stopMonitoring
               /\ wg = 0
               /\ samplerPc = "exited")
    /\ [][/\ pc' = "cooldown" => pc \in {"copy", "cooldown"}
          /\ (pc = "cooldown" /\ pc' # "cooldown") => (pc' = "loop" /\ i' = i + 1)
          /\ i' # i
                => /\ i' = i + 1
                   /\ Len(results') = i
                   /\ pc = IF i < Len(providers) /\ cooldown > 0
                           THEN "cooldown" ELSE "copy"]_vars

C20_Witness ==
    /\ pc = "cooldown"
    /\ cooldown = 5
    /\ i = 2
    /\ Len(providers) = 3
    /\ Len(results) = 2

\* C21 as stated: no outcome of a provider's attack is consumed before the
\* provider's sampler has begun discovering or sampling.
C21_Original ==
    (pc = "attack" /\ consumed # <<>>) => samplerPc \notin {"idle", "spawned"}

\* the provider's run is between the go statement and the stop signal
BeforeStop == pc \in {"ctx", "attack", "EndAttack", "stop"}

\* C21: within each provider's run the sampler goroutine is launched before
\* the attack starts: from the go statement to the stop signal the goroutine
\* of this provider exists, counted by the WaitGroup until it returns, and
\* it has returned only when no process was found; the attack starts only
\* after the launch, and outcomes are consumed only in the attack loop.  The
\* launched goroutine need not have taken its first step when an outcome is
\* consumed.
C21_SamplerLaunchedFirst ==
    /\ [](BeforeStop
            => /\ samplerPc # "idle"
               /\ ~stopMonitoring
               /\ wg = IF samplerPc = "exited" THEN 0 ELSE 1
               /\ samplerPc = "exited" => ~getProcessByPort(providers[i].Port))
    /\ [][/\ (pc' = "attack" /\ pc # "attack") => pc = "ctx"
          /\ (pc' = "ctx" /\ pc # "ctx") => samplerPc' = "spawned"
          /\ consumed' \notin {consumed, <<>>} => pc = "attack"]_vars

C21_Witness ==
    /\ pc = "attack"
    /\ Len(consumed) = 1
    /\ samplerPc = "spawned"
    /\ wg = 1
    /\ getProcessByPort(providers[i].Port)

\* C22: the stop signal is sent to the sampler only after the attack loop
\* has ended, by exhaustion of the outcome sequence or by the forced break,
\* and the metrics have been closed; once the signal is sent the metrics
\* hold every consumed outcome and neither they nor the consumed outcomes
\* change.
C22_StopAfterLoop ==
    /\ [](stopMonitoring
            => /\ metrics.closed
               /\ metrics.Requests = Len(consumed)
               /\ pc \notin {"ctx", "attack", "EndAttack", "stop"})
    /\ [][/\ (stopMonitoring' /\ ~stopMonitoring)
                => /\ pc = "stop"
                   /\ metrics.closed
                   /\ \/ forced
                      \/ attack[i] = "closed" /\ resultsCh[i] = <<>>
          /\ stopMonitoring => (metrics' = metrics /\ consumed' = consumed)]_vars

C22_Witness ==
    /\ stopMonitoring
    /\ pc = "wait"
    /\ forced
    /\ attack[i] = "running"
    /\ metrics.closed
    /\ metrics.Requests = 1
    /\ samplerPc = "select"

\* the sampler goroutine has been launched and has not returned
SamplerAlive == samplerPc \in {"spawned", "discovering", "select", "locking", "append"}

\* the orchestrator is at the locked copy of the sample buffer
Copying == pc \in {"lock", "copy"}

\* C23: the orchestrator locks and copies the sample buffer only after the
\* sampler goroutine has returned: the copy never runs while the sampler is
\* alive, and it is entered only through the join with the WaitGroup at zero.
C23_CopyAfterJoin ==
    /\ [](Copying => (~SamplerAlive /\ samplerPc = "exited" /\ wg = 0))
    /\ [][(Copying' /\ ~Copying)
             => (pc = "wait" /\ wg = 0 /\ stopMonitoring /\ samplerPc = "exited")]_vars

C23_Witness ==
    /\ pc = "copy"
    /\ samplerPc = "exited"
    /\ wg = 0
    /\ Len(serverMemStats) = 1
    /\ getProcessByPort(providers[i].Port)

\* C24: every access to the sample buffer is made with the provider's mutex
\* held by the task that makes it: the sampler appends holding it, the
\* orchestrator reads the buffer into the result holding it, the two are
\* never at their access together, and the buffer changes by nothing else
\* than the locked append (a new provider gets a new buffer).
C24_BufferUnderMutex ==
    /\ [](/\ memMutex \in {"free", "sampler", "main"}
          /\ samplerPc = "append" <=> memMutex = "sampler"
          /\ pc = "copy" <=> memMutex = "main"
          /\ ~(samplerPc = "append" /\ pc = "copy"))
    /\ [][/\ serverMemStats' # serverMemStats
                => \/ samplerPc = "append" /\ memMutex = "sampler"
                   \/ pc = "loop" /\ pc' = "ctx" /\ serverMemStats' = <<>>
          /\ results' # results
                => /\ pc = "copy" /\ memMutex = "main"
                   /\ results'[Len(results')].ServerMemoryStats = serverMemStats]_vars

C24_Witness ==
    /\ samplerPc = "append"
    /\ memMutex = "sampler"
    /\ pc = "wait"
    /\ stopMonitoring

\* s2 is s1 with one element appended
AppendedTo(s1, s2) == Len(s2) = Len(s1) + 1 /\ SubSeq(s2, 1, Len(s1)) = s1

C26_OneResultPerProvider ==
    /\ [](/\ Len(results) <= Len(providers)
          /\ \A k \in DOMAIN results : results[k].ProviderName = providers[k].Name
          /\ pc = "save" => Len(results) = Len(providers))
    /\ [][results' # results
             => /\ Len(results') = i
                /\ \A k \in DOMAIN results : results'[k] = results[k]
                /\ results'[i].Metrics = metrics
                /\ metrics.Requests = Len(consumed)
                /\ results'[i].DropReasons = dropReasons
                /\ MapSum(dropReasons)
                     = Cardinality(Non200) + Cardinality(WithError)
                         + (IF forced THEN 1 ELSE 0)
                /\ results'[i].ServerMemoryStats = serverMemStats]_vars

C26_Witness ==
    /\ pc = "save"
    /\ Len(results) = 3
    /\ results[1].DropReasons = (TransportFailure :> 2)
    /\ results[2].DropReasons = (TransportFailure :> 1)
    /\ results[3].DropReasons = (TransportFailure :> 1) @@ ("context_timeout" :> 1)
    /\ results[1].Metrics.Requests = 2
    /\ results[2].Metrics.Requests = 1
    /\ Len(results[1].ServerMemoryStats) = 1
    /\ results[3].ServerMemoryStats = <<>>

\* C27 as stated: when the run of the next provider starts, the sampler of
\* the provider before it has returned, and from then on no request is
\* generated and no outcome delivered for an earlier provider.
C27_Original ==
    [][/\ (pc = "loop" /\ pc' = "ctx" /\ i > 1) => (samplerPc = "exited" /\ wg = 0)
       /\ \A k \in 1..(i - 1) :
             /\ requestCounter'[k] = requestCounter[k]
             /\ resultsCh'[k] = resultsCh[k]]_vars

\* the states of the sampler's state machine: 0 Idle, 1 Discovering,
\* 2 Sampling, 3 Stopped
Phase(s) ==
    CASE s \in {"idle", "spawned"}             -> 0
      [] s = "discovering"                     -> 1
      [] s \in {"select", "locking", "append"} -> 2
      [] s = "exited"                          -> 3

\* C28: the sampler of a provider moves only forward through Idle,
\* Discovering, Sampling, Stopped (the next provider gets a new sampler in
\* Idle): it enters Sampling only from Discovering and only when the
\* discovery found the process, it appends only in Sampling, it leaves
\* Sampling only on the stop signal, and when the discovery finds no process
\* it goes from Discovering to Stopped with an empty buffer and without a step
\* of the orchestrator, whose run goes on with the buffer staying empty.
C28_SamplerStateMachine ==
    /\ [][/\ samplerPc' # samplerPc
                => \/ pc = "loop" /\ pc' = "ctx" /\ samplerPc' = "spawned"
                   \/ Phase(samplerPc') = Phase(samplerPc)
                   \/ Phase(samplerPc') = Phase(samplerPc) + 1
                   \/ Phase(samplerPc) = 1 /\ Phase(samplerPc') = 3
          /\ (Phase(samplerPc') = 2 /\ Phase(samplerPc) # 2)
                => (Phase(samplerPc) = 1 /\ getProcessByPort(providers[i].Port))
          /\ (Len(serverMemStats') > Len(serverMemStats))
                => (Phase(samplerPc) = 2 /\ Phase(samplerPc') = 2)
          /\ (Phase(samplerPc) = 2 /\ Phase(samplerPc') = 3) => stopMonitoring
          /\ (Phase(samplerPc) = 1 /\ Phase(samplerPc') = 3)
                => /\ ~getProcessByPort(providers[i].Port)
                   /\ serverMemStats' = <<>>
                   /\ pc' = pc
                   /\ wg' = 0]_vars
    /\ []((pc \in {"ctx", "attack", "EndAttack", "stop", "wait", "lock", "copy"}
              /\ ~getProcessByPort(providers[i].Port))
            => (Phase(samplerPc) \in {0, 1, 3} /\ serverMemStats = <<>>))

C28_Witness ==
    /\ i = 2
    /\ pc = "attack"
    /\ consumed # <<>>
    /\ ~getProcessByPort(providers[i].Port)
    /\ samplerPc = "exited"
    /\ serverMemStats = <<>>
    /\ Len(results[1].ServerMemoryStats) = 1

\* C29 as stated: a tick on which a read of the memory figures failed (the
\* memory-size read or the memory-percent read) appends no sample: the
\* sampler goes on to the lock and the append only with figures that were
\* all read without error.
C29_Original ==
    samplerPc \in {"locking", "append"} => pendingStat.err = ""

\* the one reason an outcome is counted under, "" when it is not counted
ReasonOf(res) ==
    IF res.Error # "" THEN res.Error
    ELSE IF res.Code # 200 THEN "HTTP " \o ToString(res.Code)
    ELSE ""

\* the outcomes consumed so far that are counted under reason
CountedUnder(reason) == {k \in DOMAIN consumed : ReasonOf(consumed[k]) = reason}

\* C30: each consumed outcome adds at most one count to the drop-reason
\* histogram: an outcome with an error is counted under its error string,
\* whatever its status; one without error and with a status other than 200
\* under "HTTP <code>"; one without error and with status 200 is not counted;
\* "context_timeout" is counted once, and only when the ceiling has ended
\* the loop.  The histogram is at every moment exactly these counts.
C30_OneReasonPerOutcome ==
    /\ [](LET reasons == ({ReasonOf(consumed[k]) : k \in DOMAIN consumed} \ {""})
                            \cup (IF forced THEN {"context_timeout"} ELSE {})
          IN  /\ DOMAIN dropReasons = reasons
              /\ \A r \in reasons :
                    dropReasons[r] = Cardinality(CountedUnder(r))
                                       + (IF forced /\ r = "context_timeout" THEN 1 ELSE 0)
              /\ forced => (ctxDone /\ pc # "attack"))
    /\ [][consumed' # consumed
             => MapSum(dropReasons') - MapSum(dropReasons)
                  = (IF ReasonOf(consumed'[Len(consumed')]) # "" THEN 1 ELSE 0)
                      + (IF forced' THEN 1 ELSE 0)]_vars

C30_Witness ==
    /\ pc = "stop"
    /\ forced
    /\ Len(consumed) = 3
    /\ dropReasons = (StatusText(500) :> 1) @@ ("HTTP 201" :> 1)
                       @@ ("context_timeout" :> 1)

\* the largest RSS of a sample sequence, 0 when it is empty
MaxRSS(stats) ==
    IF stats = <<>> THEN 0
    ELSE CHOOSE m \in {stats[k].RSS : k \in DOMAIN stats} :
            \A k \in DOMAIN stats : stats[k].RSS <= m

\* the sum of the RSS values of a sample sequence
SumRSS(stats) == SumOver([k \in DOMAIN stats |-> stats[k].RSS], DOMAIN stats)

\* C31: the stored peak memory of a result is the largest RSS of its copied
\* sample sequence divided by the bytes of a megabyte, the stored average is
\* the sum of the RSS values divided by their number and by the bytes of a
\* megabyte; both are 0 for an empty sequence, and the peak is never below
\* the average.
C31_PeakAndMean ==
    pc = "done"
        => \A j \in DOMAIN results :
             LET stats == results[LastAt(ToLower(results[j].ProviderName))].ServerMemoryStats
                 e     == file.data[ToLower(results[j].ProviderName)]
                 peak  == e["server_peak_memory_mb"]
                 avg   == e["server_avg_memory_mb"]
             IN  /\ peak[2] > 0 /\ avg[2] > 0
                 /\ peak[1] * BytesPerMB = MaxRSS(stats) * peak[2]
                 /\ stats # <<>>
                      => avg[1] * (Len(stats) * BytesPerMB) = SumRSS(stats) * avg[2]
                 /\ stats = <<>> => (peak = <<0, 1>> /\ avg = <<0, 1>>)
                 /\ peak[1] * avg[2] >= avg[1] * peak[2]

C31_Witness ==
    /\ pc = "done"
    /\ Len(results) = 1
    /\ results[1].ServerMemoryStats
         = <<ServerMemStat(3 * BytesPerMB, 5), ServerMemStat(BytesPerMB, 5),
             ServerMemStat(1572864, 5)>>
    /\ file.data[ToLower(Bifrost)]["server_peak_memory_mb"] = <<3, 1>>
    /\ file.data[ToLower(Bifrost)]["server_avg_memory_mb"] = <<11, 6>>

\* the consumed outcomes with a transport error or a status outside 200..299
Failed == {k \in DOMAIN consumed :
              consumed[k].Code < 200 \/ consumed[k].Code >= 300}

\* C32 as stated: the error rate stored for a provider is the number of its
\* outcomes with a status outside 2xx or a transport error, divided by the
\* number of its requests, as a percentage.
C32_Original ==
    (pc = "stop" /\ metrics.Requests > 0)
        => ErrorRate(metrics) = Rat(100 * Cardinality(Failed), metrics.Requests)

\* C33 as stated: the wall-clock ceiling of an attack does not expire before
\* the requested duration has elapsed, so that an attack whose outcomes are
\* all delivered within the duration ends by exhausting the outcome
\* sequence, without "context_timeout" and without an outcome left
\* unconsumed.
C33_Original ==
    /\ ctxDone => clock >= duration
    /\ LoopEnded
         => /\ ~forced
            /\ "context_timeout" \notin DOMAIN dropReasons
            /\ attack[i] = "closed"
            /\ resultsCh[i] = <<>>

\* C34: in the attack loop of a provider, an outcome added to the metrics
\* while the context is done is the last one: the step that adds it leaves
\* the loop by the forced break, after which the metrics and the histogram
\* do not change; "context_timeout" is counted once by that step and is not
\* in the histogram otherwise.
C34_OneOutcomeAfterExpiry ==
    /\ [][/\ (ctxDone /\ metrics'.Requests # metrics.Requests)
                => /\ ~forced /\ forced'
                   /\ metrics'.Requests = metrics.Requests + 1
                   /\ pc' = "EndAttack"
          /\ forced
                => /\ forced'
                   /\ metrics'.Requests = metrics.Requests
                   /\ consumed' = consumed
                   /\ dropReasons' = dropReasons]_vars
    /\ [](IF forced
          THEN "context_timeout" \in DOMAIN dropReasons
                 /\ dropReasons["context_timeout"] = 1
          ELSE "context_timeout" \notin DOMAIN dropReasons)

C34_Witness ==
    /\ pc = "stop"
    /\ forced
    /\ metrics.Requests = 2
    /\ dropReasons["context_timeout"] = 1
    /\ attack[i] = "running"
    /\ resultsCh[i] # <<>>

\* C35: the context of a provider's attack is made when that provider's
\* attack starts, with its deadline the ceiling after that moment: the
\* attack starts with a context that is not done, whatever happened to the
\* contexts of earlier providers, and the context is done, and the loop
\* left by the forced break, only when the clock has reached the deadline
\* of this provider.
C35_CeilingPerProvider ==
    /\ [][(pc = "ctx" /\ pc' = "attack")
             => /\ ~ctxDone' /\ ~forced'
                /\ deadline' = clock + WallClockCeiling(duration)]_vars
    /\ []((pc = "attack" \/ LoopEnded)
             => /\ ctxDone => clock >= deadline
                /\ forced => ctxDone
                /\ deadline <= clock + WallClockCeiling(duration))

C35_Witness ==
    /\ i = 2
    /\ pc = "attack"
    /\ Len(results) = 1
    /\ "context_timeout" \in DOMAIN results[1].DropReasons
    /\ ~ctxDone
    /\ consumed # <<>>
    /\ clock >= 270
    /\ clock < deadline

\* a step of the sampler goroutine that changes its state
SamplerStep ==
    \/ SamplerBegin
    \/ SamplerFound
    \/ SamplerNotFound
    \/ SamplerStop
    \/ SamplerTick
    \/ SamplerLock
    \/ SamplerAppend

\* C36: sending the stop signal and joining the sampler does not deadlock:
\* the orchestrator can always send the signal when it has left the loop;
\* while it waits at the join, either the sampler has returned and the join
\* can return, or the sampler, wherever it is, can take a step; and once the
\* loop has ended the join does return.
C36_JoinReturns ==
    /\ [](pc = "stop" => ENABLED StopMonitoring)
    /\ [](pc = "wait"
            => \/ wg = 0 /\ samplerPc = "exited" /\ ENABLED WaitSampler
               \/ wg = 1 /\ samplerPc # "exited" /\ ENABLED SamplerStep)
    /\ (pc = "stop") ~> (pc = "lock" /\ samplerPc = "exited")

C36_Witness ==
    /\ pc = "wait"
    /\ stopMonitoring
    /\ samplerPc = "discovering"
    /\ wg = 1
    /\ getProcessByPort(providers[i].Port)
    /\ forced


\* the request is in DebugHandler: it has arrived and has not been answered
InProgress(r) == handler[r].pc \notin {"idle", "returned"}

RECURSIVE SumCounted(_, _)
\* what the requests of S have added to the counter named c
SumCounted(S, c) ==
    IF S = {} THEN 0
    ELSE LET r == CHOOSE x \in S : TRUE
         IN  handler[r].counted[c] + SumCounted(S \ {r}, c)

\* what request r has added to the three outcome counters
OutcomesCounted(r) ==
    handler[r].counted.SuccessfulRequests + handler[r].counted.ErrorCount
        + handler[r].counted.DroppedRequests

CounterNames == {"TotalRequests", "SuccessfulRequests", "ErrorCount", "DroppedRequests"}

\* C37: under every interleaving of concurrent requests to DebugHandler each
\* request adds one to TotalRequests exactly once (it has done so as soon as
\* it is past the first critical section) and one to exactly one of
\* SuccessfulRequests, ErrorCount, DroppedRequests exactly once (it has done
\* so when it is answered); the counters hold nothing else, so
\* Successful + Error + Dropped <= Total in every reachable state, with
\* equality whenever no request is in progress
C37_CountersAddUp ==
    /\ \A c \in CounterNames : serverMetrics[c] = SumCounted(Requests, c)
    /\ \A r \in Requests :
          /\ handler[r].counted.TotalRequests
                = (IF handler[r].pc \in {"idle", "lockTotal", "countTotal"} THEN 0 ELSE 1)
          /\ OutcomesCounted(r) <= handler[r].counted.TotalRequests
          /\ handler[r].pc = "returned" => OutcomesCounted(r) = 1
    /\ serverMetrics.SuccessfulRequests + serverMetrics.ErrorCount
          + serverMetrics.DroppedRequests <= serverMetrics.TotalRequests
    /\ (\A r \in Requests : ~InProgress(r))
          => serverMetrics.SuccessfulRequests + serverMetrics.ErrorCount
               + serverMetrics.DroppedRequests = serverMetrics.TotalRequests

\* two requests that ran concurrently have been answered, one counted as
\* dropped and one as successful
C37_Witness ==
    /\ \A r \in Requests : handler[r].pc = "returned"
    /\ serverMetrics.TotalRequests >= 2
    /\ serverMetrics.DroppedRequests >= 1
    /\ serverMetrics.SuccessfulRequests >= 1
    /\ serverMetrics.ErrorCount + serverMetrics.SuccessfulRequests
          + serverMetrics.DroppedRequests = serverMetrics.TotalRequests

\* the elements of a sequence
Range(q) == {q[k] : k \in DOMAIN q}

\* the requests whose response has been counted in the timing statistics
Extracted ==
    {r \in Requests : /\ handler[r].counted.SuccessfulRequests = 1
                      /\ handler[r].pc \in {"encode", "returned"}}

\* what holds of a request whose select took the time.After case
DroppedOnly(r) ==
    /\ handler[r].pc \in {"lockDropped", "countDropped", "returned"}
    /\ handler[r].counted.SuccessfulRequests = 0
    /\ handler[r].counted.ErrorCount = 0
    /\ handler[r].counted.DroppedRequests
          = (IF handler[r].pc = "returned" THEN 1 ELSE 0)
    /\ handler[r].status = (IF handler[r].pc = "returned" THEN 504 ELSE 0)
    /\ r \notin Range(timingStats.metrics) \cup Range(timingStats.providerTimings)
    /\ r \notin Extracted

\* a step of request r out of a select whose 30 seconds have passed with the
\* backend call not completed
LeavesExpiredSelect(r) ==
    /\ handler[r].pc = "select"
    /\ ~handler[r].done
    /\ handler[r].waited >= RequestTimeout
    /\ handler'[r].pc # "select"

\* C38: a request whose backend call has not completed when the 30 seconds
\* of the select have passed leaves the select by the timeout case only; from
\* then on, in every later state and also after the backend call completes,
\* it is counted as dropped once (when answered) and never as successful or
\* as an error, its answer is the gateway timeout (504), and the timing
\* statistics hold nothing of it: stats.totalRequests counts exactly the
\* requests that went through the success path
C38_TimeoutCountedOnce ==
    /\ [](\A r \in Requests : handler[r].timedOut => DroppedOnly(r))
    /\ [](timingStats.totalRequests = Cardinality(Extracted))
    /\ [][\A r \in Requests :
            LeavesExpiredSelect(r) => handler'[r].pc = "lockDropped" /\ handler'[r].timedOut]_vars

\* a request was answered 504 and counted as dropped, and its backend call
\* completed afterwards with a response
C38_Witness ==
    \E r \in Requests :
        /\ handler[r].timedOut
        /\ handler[r].pc = "returned"
        /\ handler[r].status = 504
        /\ handler[r].done
        /\ ~handler[r].bifrostErr
        /\ serverMetrics.DroppedRequests = 1

\* the requests and operations that take the mutexes
Processes == Requests \cup Operations

\* the mutex the process is blocked on or about to take: "server", "stats"
\* or "none"
WaitsFor(p) ==
    IF p \in Requests
    THEN IF handler[p].pc \in DOMAIN AfterLock THEN "server"
         ELSE IF handler[p].pc = "lockStats" THEN "stats" ELSE "none"
    ELSE IF p = "PrintStats" /\ opPc[p] = "lockServer" THEN "server" ELSE "none"

\* the process is outside its operation
Outside(p) ==
    IF p \in Requests THEN handler[p].pc \in {"idle", "returned"} ELSE opPc[p] = "idle"

\* a cycle of waits: p waits for a mutex that q holds while q waits for a
\* mutex that p holds (p = q: a process waits for a mutex it holds itself)
Deadlocked ==
    \E p, q \in Processes :
        \/ WaitsFor(p) = "server" /\ serverMetrics.mu = q
              /\ WaitsFor(q) = "stats" /\ timingStats.mu = p
        \/ p = q /\ WaitsFor(p) = "server" /\ serverMetrics.mu = p
        \/ p = q /\ WaitsFor(p) = "stats" /\ timingStats.mu = p

=========================================================================
